---- MODULE Spec2Model ----
(***************************************************************************)
(* A model of the streaming import engine of beefy-bi: the range algebra,  *)
(* the import-state update (mergeImportState), the query planner           *)
(* (restrictRangesWithImportState and its callers) and the batch-RPC       *)
(* operator (batchRpcCalls$).                                              *)
(***************************************************************************)
EXTENDS Integers, Sequences, FiniteSets, TLC

(***************************************************************************)
(* Bounds of the model and program constants.                              *)
(***************************************************************************)
\* the chain head never grows past this block number
MaxHead == 10
\* the chain head when the import starts
FirstHead == MaxHead - 1
\* the contract creation block is drawn from 0..MaxCreatedAt
MaxCreatedAt == 1
\* at most this many items in one buffered group of updateImportState$
MaxUpdateBatch == 2
\* the block number forced by the caller, when one is forced
ForcedBlock == FirstHead - 1
\* floor(samplingPeriodMs[timeStep] / MS_PER_BLOCK_ESTIMATE[chain]) (utils/config)
avgBlockPerTimeStep == 3
\* CHAIN_RPC_MAX_QUERY_BLOCKS[chain] (utils/config)
maxBlocksPerQuery == 2
\* MAX_RANGES_PER_PRODUCT_TO_GENERATE (utils/config)
MAX_RANGES_PER_PRODUCT_TO_GENERATE == 2
\* const waitForBlockPropagation = 5
waitForBlockPropagation == 5

\* stands for the javascript number Infinity: above every block number
Infinity == MaxHead + 1

\* the value of forceCurrentBlockNumber when no block number is forced
NoForce == -1

(***************************************************************************)
(* Range algebra (utils/range).  A Range<number> is a record               *)
(* [from |-> a, to |-> b], inclusive on both ends.                         *)
(***************************************************************************)
Range(a, b) == [from |-> a, to |-> b]

isInRange(r, v) == r.from <= v /\ v <= r.to

\* the blocks a list of ranges contains
BlocksOf(rs) == UNION {r.from .. r.to : r \in {rs[i] : i \in 1..Len(rs)}}

Reverse(s) == [i \in 1..Len(s) |-> s[Len(s) + 1 - i]]

\* insert r in a list sorted by from, after the elements with an equal from
RECURSIVE InsertByFrom(_, _)
InsertByFrom(r, s) ==
    IF s = <<>> THEN <<r>>
    ELSE IF r.from < Head(s).from THEN <<r>> \o s
    ELSE <<Head(s)>> \o InsertByFrom(r, Tail(s))

\* rangeSort: by from, stable
RECURSIVE rangeSort(_)
rangeSort(rs) ==
    IF rs = <<>> THEN <<>>
    ELSE InsertByFrom(rs[Len(rs)], rangeSort(SubSeq(rs, 1, Len(rs) - 1)))

\* collapse a list sorted by from; numbers are adjacent when to + 1 = from
RECURSIVE MergeSorted(_)
MergeSorted(s) ==
    IF Len(s) <= 1 THEN s
    ELSE LET a == s[1]
             b == s[2]
         IN IF b.from <= a.to + 1
            THEN MergeSorted(<<Range(a.from, IF b.to > a.to THEN b.to ELSE a.to)>> \o SubSeq(s, 3, Len(s)))
            ELSE <<a>> \o MergeSorted(Tail(s))

\* rangeMerge: sorted, non-overlapping, non-adjacent
rangeMerge(rs) == MergeSorted(rangeSort(rs))

\* one range minus one range: what is left below and above the excluded one
rangeExclude(r, ex) ==
    IF ex.to < r.from \/ ex.from > r.to THEN <<r>>
    ELSE (IF r.from < ex.from THEN <<Range(r.from, ex.from - 1)>> ELSE <<>>)
         \o (IF ex.to < r.to THEN <<Range(ex.to + 1, r.to)>> ELSE <<>>)

\* every range of a list minus one range, in order
RECURSIVE rangeExcludeMany(_, _)
rangeExcludeMany(rs, ex) ==
    IF rs = <<>> THEN <<>>
    ELSE rangeExclude(Head(rs), ex) \o rangeExcludeMany(Tail(rs), ex)

\* rangeArrayExclude: set-subtraction of a range list from another, in order
RECURSIVE rangeArrayExclude(_, _)
rangeArrayExclude(rs, exs) ==
    IF exs = <<>> THEN rs
    ELSE rangeArrayExclude(rangeExcludeMany(rs, Head(exs)), Tail(exs))

\* rangeSplitToMaxLength: a chain of adjacent ranges of at most n blocks each
RECURSIVE rangeSplitToMaxLength(_, _)
rangeSplitToMaxLength(r, n) ==
    IF r.to - r.from + 1 <= n THEN <<r>>
    ELSE rangeSplitToMaxLength(Range(r.from, r.to - n), n) \o <<Range(r.to - n + 1, r.to)>>

RECURSIVE rangeSplitManyToMaxLength(_, _)
rangeSplitManyToMaxLength(rs, n) ==
    IF rs = <<>> THEN <<>>
    ELSE rangeSplitToMaxLength(Head(rs), n) \o rangeSplitManyToMaxLength(Tail(rs), n)

Min(a, b) == IF a <= b THEN a ELSE b

\* rangeValueMax: the largest value of a list, undefined (here -1) when empty
RECURSIVE rangeValueMax(_)
rangeValueMax(vs) ==
    IF vs = <<>> THEN -1
    ELSE LET m == rangeValueMax(Tail(vs))
         IN IF Head(vs) > m THEN Head(vs) ELSE m

(***************************************************************************)
(* Import state of one import key and its update.                          *)
(*   importState: the stored row (importData of a block-number import)     *)
(*   head:        the latest block number of the chain                     *)
(*   plan:        the output of the last planner run, NoPlan once the      *)
(*                import state has been updated since                      *)
(*   pipeline:    the planner of the pipeline that imports this key        *)
(*   queries:     the planned ranges being processed, not yet reported,    *)
(*                in the order of the stream                               *)
(*   batch:       the group of results buffered by updateImportState$      *)
(***************************************************************************)
VARIABLES importState, head, plan, queries, batch, pipeline

importVars == <<importState, head, plan, queries, batch, pipeline>>

(***************************************************************************)
(* State of one batchRpcCalls$ operator.                                   *)
(*   rpcConfig:  the stream configuration and the limitations of the RPC   *)
(*   rpcNext:    the next item the upstream emits (items are 1, 2, ...)    *)
(*   rpcBuffer:  the items bufferTime holds                                *)
(*   rpcGroups:  the groups emitted by bufferTime, queued by concatMap     *)
(*   rpcCall:    the group concatMap processes, [objs, elapsed], or NoCall *)
(*   rpcOut:     the outputs emitted downstream, in order                  *)
(*   rpcErrors:  the items passed to ctx.emitErrors, in order              *)
(*   rpcFailed:  the groups whose RPC call failed for good                 *)
(*   rpcThrown:  the errors these calls ended with: the group, the error   *)
(*               of processBatch and the error work() threw for it         *)
(*   rpcAlive:   FALSE once an error has reached the subscriber            *)
(***************************************************************************)
VARIABLES rpcConfig, rpcNext, rpcBuffer, rpcGroups, rpcCall, rpcOut, rpcErrors, rpcFailed, rpcThrown,
          rpcAlive

rpcVars == <<rpcConfig, rpcNext, rpcBuffer, rpcGroups, rpcCall, rpcOut, rpcErrors, rpcFailed,
            rpcThrown, rpcAlive>>

(***************************************************************************)
(* The import_state table and the operators that write it.                 *)
(*   dbRows:    the committed rows, import key -> importData               *)
(*   txs:       the update transactions mergeMap runs at the same time,    *)
(*              one per slot of workConcurrency                            *)
(*   txOut:     the items updateImportState$ emitted downstream            *)
(*   txErrors:  the items updateImportState$ passed to ctx.emitErrors      *)
(*   txAlive:   FALSE once updateImportState$ has thrown to its subscriber *)
(*   fetchers:  the runs of addMissingImportState$                         *)
(***************************************************************************)
VARIABLES dbRows, txs, txOut, txErrors, txAlive, fetchers

txVars == <<dbRows, txs, txOut, txErrors, txAlive, fetchers>>

(***************************************************************************)
(* The patched JsonRpcBatchProvider (utils/ethers.ts).                     *)
(*   bpNextId:    provider._nextId                                         *)
(*   bpPending:   provider._pendingBatch, the requests of the next batch   *)
(*   bpTimer:     provider._pendingBatchAggregator is set                  *)
(*   bpTimers:    the aggregator callbacks of setTimeout that have not run *)
(*   bpFlights:   the batches posted by fetchJson and not answered yet     *)
(*   bpAnswered:  the batches answered, each with the kind of its answer   *)
(*   bpSettled:   request id -> how the promise of its caller was settled  *)
(***************************************************************************)
VARIABLES bpNextId, bpPending, bpTimer, bpTimers, bpFlights, bpAnswered, bpSettled

bpVars == <<bpNextId, bpPending, bpTimer, bpTimers, bpFlights, bpAnswered, bpSettled>>

(***************************************************************************)
(* The Transfer logs of the chain and fetchERC20TransferEvents.            *)
(*   chainLogs:     the Transfer events of the chain, in log order         *)
(*   contractCalls: the calls of the last fetchERC20TransferEvents         *)
(*   transfers:     the records it returned, <<>> before the fetch         *)
(*   fetched:       TRUE once fetchERC20TransferEvents has returned        *)
(***************************************************************************)
VARIABLES chainLogs, contractCalls, transfers, fetched

etVars == <<chainLogs, contractCalls, transfers, fetched>>

(***************************************************************************)
(* The latest-block query of the live import (addLatestBlockQuery$).       *)
(*   lastImported: what getLastImportedBlock returns, NoLastImported for   *)
(*                 null                                                    *)
(*   latestQuery:  the last query addLatestBlockQuery$ computed, with its  *)
(*                 inputs, NoLatestQuery before the first one              *)
(***************************************************************************)
VARIABLES lastImported, latestQuery

lqVars == <<lastImported, latestQuery>>

(***************************************************************************)
(* The invocations of the historical planner.                              *)
(*   runs: what each invocation read and what it passed to formatOutput    *)
(***************************************************************************)
VARIABLES runs

runVars == <<runs>>

(***************************************************************************)
(* latestBlockNumber$ and its cache (cacheOperatorResult$).                *)
(*   lbCache:    the entries of the cache: a key, the result or the mark   *)
(*               of a result in flight, and the age of the result          *)
(*   lbCallers:  the items that go through latestBlockNumber$: the chain   *)
(*               of their pipeline, where they are and what they got       *)
(*   lbCalls:    the eth_blockNumber calls in flight                       *)
(***************************************************************************)
VARIABLES lbCache, lbCallers, lbCalls

lbVars == <<lbCache, lbCallers, lbCalls>>

(***************************************************************************)
(* The rate-limited RPC gate (callLockProtectedRpc) and the operators that *)
(* call through it.                                                        *)
(*   gateClock:     the time, in ticks                                     *)
(*   gateHolder:    per endpoint, the operator that holds the gate, if any *)
(*   gateReleased:  per endpoint, when the gate was last released          *)
(*   gateOps:       per operator, its endpoint and provider, where its     *)
(*                  call is, and when the call started                     *)
(*   gateCalls:     per endpoint, start and end of the gated call that     *)
(*                  ended last                                             *)
(***************************************************************************)
VARIABLES gateClock, gateHolder, gateReleased, gateOps, gateCalls

gateVars == <<gateClock, gateHolder, gateReleased, gateOps, gateCalls>>

(***************************************************************************)
(* processShareRateQuery$ (import-share-rate-prices.ts).                   *)
(*   ppfsItems:   per query, its product and where the query is            *)
(*   ppfsBuffer:  the queries that wait in front of fetchBeefyPPFS$        *)
(*   ppfsCall:    the queries of the batch whose RPC call is in flight     *)
(*   ppfsCalled:  the getPricePerFullShare calls made: query and params    *)
(*   ppfsThrown:  the error that ended the pipeline and the query it was   *)
(*                raised for (0 when there is none)                        *)
(***************************************************************************)
VARIABLES ppfsItems, ppfsBuffer, ppfsCall, ppfsCalled, ppfsThrown

ppfsVars == <<ppfsItems, ppfsBuffer, ppfsCall, ppfsCalled, ppfsThrown>>

(***************************************************************************)
(* addCoveringBlockRangesQuery (import-queries.ts, second variant).        *)
(*   cbBlockList:      the interpolated block numbers fetchChainBlockList$ *)
(*                     returns, one per time step                          *)
(*   cbParentCovered:  coveredRanges of the parent import state            *)
(*   cbLatest:         the latest block number of the chain                *)
(*   cbOut:            what the operator computed: the step, the number of *)
(*                     extrapolated blocks, the block list and the ranges  *)
(***************************************************************************)
VARIABLES cbBlockList, cbParentCovered, cbLatest, cbOut

cbVars == <<cbBlockList, cbParentCovered, cbLatest, cbOut>>

(***************************************************************************)
(* fetchErc20Transfers$ (erc20-transfers.ts): the queries built for the    *)
(* groups of batchQueryGroup$.                                             *)
(*   tqItems:    the query parameters of the buffered items                *)
(*   tqQueries:  per batch key, the query built for the items of the key   *)
(*   tqBuilt:    the queries have been built                               *)
(***************************************************************************)
VARIABLES tqItems, tqQueries, tqBuilt

tqVars == <<tqItems, tqQueries, tqBuilt>>

(***************************************************************************)
(* updateBlockRangesImportStatus$ (block-ranges-import-status.ts): the     *)
(* legacy import status of one product.                                    *)
(*   lsStatus:  the stored importData.data of the product                  *)
(*   lsItems:   the items of the last update                               *)
(***************************************************************************)
VARIABLES lsStatus, lsItems

lsVars == <<lsStatus, lsItems>>

\* what the import of one key leaves alone
notImportVars == <<rpcVars, txVars, bpVars, etVars, lqVars, runVars, lbVars, gateVars, ppfsVars, cbVars, tqVars, lsVars>>
\* what batchRpcCalls$ leaves alone
notRpcVars == <<importVars, txVars, bpVars, etVars, lqVars, runVars, lbVars, gateVars, ppfsVars, cbVars, tqVars, lsVars>>
\* what the operators on the import_state table leave alone
notTxVars == <<importVars, rpcVars, bpVars, etVars, lqVars, runVars, lbVars, gateVars, ppfsVars, cbVars, tqVars, lsVars>>
\* what the batch provider leaves alone
notBpVars == <<importVars, rpcVars, txVars, etVars, lqVars, runVars, lbVars, gateVars, ppfsVars, cbVars, tqVars, lsVars>>
\* what fetchERC20TransferEvents leaves alone
notEtVars == <<importVars, rpcVars, txVars, bpVars, lqVars, runVars, lbVars, gateVars, ppfsVars, cbVars, tqVars, lsVars>>
\* what addLatestBlockQuery$ leaves alone
notLqVars == <<importVars, rpcVars, txVars, bpVars, etVars, runVars, lbVars, gateVars, ppfsVars, cbVars, tqVars, lsVars>>
\* what the record of the invocations leaves alone
notRunVars == <<importVars, rpcVars, txVars, bpVars, etVars, lqVars, lbVars, gateVars, ppfsVars, cbVars, tqVars, lsVars>>
\* what the import pipeline over batchRpcCalls$ leaves alone
notPipelineVars == <<txVars, bpVars, etVars, lqVars, runVars, lbVars, gateVars, ppfsVars, cbVars, tqVars, lsVars>>
\* what the runs of the planner leave alone
notPlannerVars == <<rpcVars, txVars, bpVars, etVars, lqVars, lbVars, gateVars, ppfsVars, cbVars, tqVars, lsVars>>
\* what latestBlockNumber$ leaves alone
notLbVars == <<importVars, rpcVars, txVars, bpVars, etVars, lqVars, runVars, gateVars, ppfsVars, cbVars, tqVars, lsVars>>
\* what the RPC gate leaves alone
notGateVars == <<importVars, rpcVars, txVars, bpVars, etVars, lqVars, runVars, lbVars, ppfsVars, cbVars, tqVars, lsVars>>
\* what processShareRateQuery$ leaves alone
notPpfsVars == <<importVars, rpcVars, txVars, bpVars, etVars, lqVars, runVars, lbVars, gateVars, cbVars, tqVars, lsVars>>
\* what addCoveringBlockRangesQuery leaves alone
notCbVars == <<importVars, rpcVars, txVars, bpVars, etVars, lqVars, runVars, lbVars, gateVars, ppfsVars, tqVars, lsVars>>
\* what the queries of fetchErc20Transfers$ leave alone
notTqVars == <<importVars, rpcVars, txVars, bpVars, etVars, lqVars, runVars, lbVars, gateVars, ppfsVars, cbVars, lsVars>>
\* what the legacy import status leaves alone
notLsVars == <<importVars, rpcVars, txVars, bpVars, etVars, lqVars, runVars, lbVars, gateVars, ppfsVars, cbVars, tqVars>>

\* nAvailable: the primary ranges there were; nPrimary: those in the output
NoPlan == [kind |-> "none", ranges |-> <<>>, nAvailable |-> 0, nPrimary |-> 0,
           latest |-> 0, force |-> NoForce]

\* the default import state of createDefaultImportState$
DefaultImportState(createdAt) ==
    [contractCreatedAtBlock |-> createdAt,
     chainLatestBlockNumber |-> 0,
     ranges |-> [coveredRanges |-> <<>>, toRetry |-> <<>>]]

RangesOf(items) == [i \in 1..Len(items) |-> items[i].range]

\* updateImportRanges (utils/import-ranges)
updateImportRanges(ranges, diff) ==
    [coveredRanges |-> rangeMerge(ranges.coveredRanges \o diff.coveredRanges),
     toRetry |-> rangeMerge(rangeArrayExclude(ranges.toRetry \o diff.errorRanges, diff.successRanges))]

\* mutant: only the ranges of the successful items are passed as covered
mergeImportState_CoverSuccessOnly(items, state) ==
    LET IsOk(it) == it.success
        IsKo(it) == ~it.success
        successRanges == rangeMerge(RangesOf(SelectSeq(items, IsOk)))
        errorRanges == rangeMerge(RangesOf(SelectSeq(items, IsKo)))
    IN [state EXCEPT
          !.ranges = updateImportRanges(state.ranges,
                        [coveredRanges |-> successRanges,
                         successRanges |-> successRanges,
                         errorRanges |-> errorRanges])]

\* mutant: the failed ranges are not recorded
mergeImportState_DropErrors(items, state) ==
    LET IsOk(it) == it.success
        successRanges == rangeMerge(RangesOf(SelectSeq(items, IsOk)))
    IN [state EXCEPT
          !.ranges = updateImportRanges(state.ranges,
                        [coveredRanges |-> RangesOf(items),
                         successRanges |-> successRanges,
                         errorRanges |-> <<>>])]

\* mutant: the latest block number of the items replaces the stored one
mergeImportState_LatestOfItems(items, state) ==
    LET IsOk(it) == it.success
        IsKo(it) == ~it.success
        newRanges == updateImportRanges(state.ranges,
                        [coveredRanges |-> RangesOf(items),
                         successRanges |-> rangeMerge(RangesOf(SelectSeq(items, IsOk))),
                         errorRanges |-> rangeMerge(RangesOf(SelectSeq(items, IsKo)))])
        latests == [i \in 1..Len(items) |-> items[i].latest]
    IN [state EXCEPT
          !.ranges = newRanges,
          !.chainLatestBlockNumber = rangeValueMax(latests)]

\* mergeImportState of updateImportState$, for the items of one import key
mergeImportState(items, state) ==
    LET IsOk(it) == it.success
        IsKo(it) == ~it.success
        coveredRanges == RangesOf(items)
        successRanges == rangeMerge(RangesOf(SelectSeq(items, IsOk)))
        errorRanges == rangeMerge(RangesOf(SelectSeq(items, IsKo)))
        newRanges == updateImportRanges(state.ranges,
                        [coveredRanges |-> coveredRanges,
                         successRanges |-> successRanges,
                         errorRanges |-> errorRanges])
        latests == [i \in 1..Len(items) |-> items[i].latest]
    IN [state EXCEPT
          !.ranges = newRanges,
          !.chainLatestBlockNumber =
              LET m == rangeValueMax(latests \o <<state.chainLatestBlockNumber>>)
              IN IF m = -1 THEN 0 ELSE m]

(***************************************************************************)
(* Query planner (import-queries.ts).                                      *)
(***************************************************************************)
\* mutant: the ranges left to import are kept oldest first
PrimaryRanges_OldestFirst(ranges, state, maxRangeLength) ==
    rangeSort(rangeSplitManyToMaxLength(
        rangeArrayExclude(ranges, state.ranges.coveredRanges), maxRangeLength))

\* mutant: the ranges left to import are not split
PrimaryRanges_NoSplit(ranges, state, maxRangeLength) ==
    Reverse(rangeSort(rangeArrayExclude(ranges, state.ranges.coveredRanges)))

\* the ranges left to import: the given ranges minus the covered ones, split
PrimaryRanges(ranges, state, maxRangeLength) ==
    Reverse(rangeSort(rangeSplitManyToMaxLength(
        rangeArrayExclude(ranges, state.ranges.coveredRanges), maxRangeLength)))

Truncate(ranges) ==
    IF Len(ranges) > MAX_RANGES_PER_PRODUCT_TO_GENERATE
    THEN SubSeq(ranges, 1, MAX_RANGES_PER_PRODUCT_TO_GENERATE)
    ELSE ranges

\* mutant: the covered ranges are not excluded
restrictRangesWithImportState_NoExclude(ranges, state, maxRangeLength) ==
    Truncate(Reverse(rangeSort(rangeSplitManyToMaxLength(ranges, maxRangeLength)))
             \o Reverse(rangeSort(rangeSplitManyToMaxLength(state.ranges.toRetry, maxRangeLength))))

\* mutant: the number of ranges is not limited
restrictRangesWithImportState_NoLimit(ranges, state, maxRangeLength) ==
    PrimaryRanges(ranges, state, maxRangeLength)
    \o Reverse(rangeSort(rangeSplitManyToMaxLength(state.ranges.toRetry, maxRangeLength)))

\* mutant: the ranges to retry are left out
restrictRangesWithImportState_NoRetry(ranges, state, maxRangeLength) ==
    Truncate(PrimaryRanges(ranges, state, maxRangeLength))

\* restrictRangesWithImportState, the variant that sorts the ranges to retry
restrictRangesWithImportState(ranges, state, maxRangeLength) ==
    LET primary == PrimaryRanges(ranges, state, maxRangeLength)
        rangesToRetry == Reverse(rangeSort(
            rangeSplitManyToMaxLength(state.ranges.toRetry, maxRangeLength)))
    IN Truncate(primary \o rangesToRetry)

\* restrictRangesWithImportState, the variant that keeps the order of toRetry
restrictRangesWithImportState2(ranges, state, maxRangeLength) ==
    LET primary == PrimaryRanges(ranges, state, maxRangeLength)
        rangesToRetry == rangeSplitManyToMaxLength(state.ranges.toRetry, maxRangeLength)
    IN Truncate(primary \o rangesToRetry)

\* the primary ranges there are, and how many of them the output holds
Available(ranges, state, maxRangeLength) == Len(PrimaryRanges(ranges, state, maxRangeLength))
PrimaryCount(ranges, state, maxRangeLength) ==
    Min(Available(ranges, state, maxRangeLength), MAX_RANGES_PER_PRODUCT_TO_GENERATE)

\* latestBlockNumber$: the forced block number, when there is one, else the head
latestBlockNumber(chainHead, force) == IF force # NoForce THEN force ELSE chainHead

\* the whole range addHistoricalBlockQuery$ has to cover
fullRange(state, latest) ==
    Range(state.contractCreatedAtBlock, latest - waitForBlockPropagation)

\* addHistoricalBlockQuery$, with the forced block number applied
addHistoricalBlockQuery(state, latest, force) ==
    LET ranges == restrictRangesWithImportState(<<fullRange(state, latest)>>, state, maxBlocksPerQuery)
    IN IF force # NoForce
       THEN rangeArrayExclude(ranges, <<Range(force, Infinity)>>)
       ELSE ranges

\* addHistoricalBlockQuery$ of the second variant: no forced block number
addHistoricalBlockQuery2(state, latest) ==
    restrictRangesWithImportState2(<<fullRange(state, latest)>>, state, maxBlocksPerQuery)

RECURSIVE InsertNum(_, _)
InsertNum(v, s) ==
    IF s = <<>> THEN <<v>>
    ELSE IF v < Head(s) THEN <<v>> \o s
    ELSE <<Head(s)>> \o InsertNum(v, Tail(s))

\* lodash sortBy on block numbers
RECURSIVE sortBy(_)
sortBy(vs) ==
    IF vs = <<>> THEN <<>>
    ELSE InsertNum(vs[Len(vs)], sortBy(SubSeq(vs, 1, Len(vs) - 1)))

\* the ranges addRegularIntervalBlockRangesQueries builds from the block
\* list: blockList holds the interpolated block numbers of the time steps, as
\* fetchChainBlockList$ returns them
RegularBlockRanges(state, blockList, latest) ==
    LET AfterCreation(b) == b >= state.contractCreatedAtBlock
        list == SelectSeq(blockList, AfterCreation)
        sorted == sortBy(list)
        between == [i \in 1..(Len(list) - 1) |-> Range(sorted[i], list[i + 1] - 1)]
        blockRanges ==
            IF list = <<>> THEN between
            ELSE <<Range(state.contractCreatedAtBlock, sorted[1] - 1)>>
                 \o between
                 \o <<Range(sorted[Len(sorted)] + 1, latest)>>
        IsValid(r) == r.from <= r.to
    IN SelectSeq(blockRanges, IsValid)

rangeMaxLength == Min(avgBlockPerTimeStep, maxBlocksPerQuery)

\* addRegularIntervalBlockRangesQueries
addRegularIntervalBlockRangesQueries(state, blockList, latest) ==
    restrictRangesWithImportState(RegularBlockRanges(state, blockList, latest), state, rangeMaxLength)

\* the block of the first time step of the block list
FirstSample == MaxCreatedAt

\* the block list of a chain: one block every avgBlockPerTimeStep from a to b
RECURSIVE BlockList(_, _)
BlockList(a, b) == IF a > b THEN <<>> ELSE <<a>> \o BlockList(a + avgBlockPerTimeStep, b)

SeqToSet(s) == {s[i] : i \in 1..Len(s)}

AsQueries(ranges, latest) == [i \in 1..Len(ranges) |-> [range |-> ranges[i], latest |-> latest]]

\* a tick starts when the results of the previous ones have been reported
CanPlan == batch = <<>> /\ queries = <<>>

(***************************************************************************)
(* Actions of the import of one import key.                                *)
(***************************************************************************)
\* the chain grows by one block
AdvanceHead ==
    /\ head < MaxHead
    /\ head' = head + 1
    /\ UNCHANGED <<importState, plan, queries, batch, pipeline, notImportVars>>

\* a tick of the historical pipeline: addHistoricalBlockQuery$
PlanHistorical ==
    \E force \in {NoForce, ForcedBlock} :
        LET latest == latestBlockNumber(head, force)
            ranges == addHistoricalBlockQuery(importState, latest, force)
        IN /\ pipeline = "historical"
           /\ CanPlan
           /\ plan' = [kind |-> "historical", ranges |-> ranges,
                       nAvailable |-> Available(<<fullRange(importState, latest)>>, importState, maxBlocksPerQuery),
                       nPrimary |-> PrimaryCount(<<fullRange(importState, latest)>>, importState, maxBlocksPerQuery),
                       latest |-> latest, force |-> force]
           /\ queries' = queries \o AsQueries(ranges, latest)
           /\ UNCHANGED <<importState, head, batch, pipeline, notImportVars>>

\* a tick of the historical pipeline, second variant of the planner
PlanHistorical2 ==
    LET ranges == addHistoricalBlockQuery2(importState, head)
    IN /\ pipeline = "historical2"
       /\ CanPlan
       /\ plan' = [kind |-> "historical2", ranges |-> ranges,
                   nAvailable |-> Available(<<fullRange(importState, head)>>, importState, maxBlocksPerQuery),
                   nPrimary |-> PrimaryCount(<<fullRange(importState, head)>>, importState, maxBlocksPerQuery),
                   latest |-> head, force |-> NoForce]
       /\ queries' = queries \o AsQueries(ranges, head)
       /\ UNCHANGED <<importState, head, batch, pipeline, notImportVars>>

\* a tick of the share-rate sampling: addRegularIntervalBlockRangesQueries
PlanRegularInterval ==
    \E a \in {FirstSample}, b \in {head - avgBlockPerTimeStep, head} :
        LET ranges == addRegularIntervalBlockRangesQueries(importState, BlockList(a, b), head)
        IN /\ pipeline = "regular"
           /\ CanPlan
           /\ plan' = [kind |-> "regular", ranges |-> ranges,
                       nAvailable |-> Available(RegularBlockRanges(importState, BlockList(a, b), head), importState, rangeMaxLength),
                       nPrimary |-> PrimaryCount(RegularBlockRanges(importState, BlockList(a, b), head), importState, rangeMaxLength),
                       latest |-> head, force |-> NoForce]
           /\ queries' = queries \o AsQueries(ranges, head)
           /\ UNCHANGED <<importState, head, batch, pipeline, notImportVars>>

\* bufferTime of updateImportState$ emits a group of the next results of the
\* stream, each with its success flag
FormBatch ==
    /\ batch = <<>>
    /\ \E n \in 1..Min(Len(queries), MaxUpdateBatch) :
         /\ \E ok \in [1..n -> BOOLEAN] :
              batch' = [i \in 1..n |->
                          [range |-> queries[i].range, latest |-> queries[i].latest,
                           success |-> ok[i]]]
         /\ queries' = SubSeq(queries, n + 1, Len(queries))
    /\ UNCHANGED <<importState, head, plan, pipeline, notImportVars>>

\* the update transaction of updateImportState$ on the buffered group
UpdateImportState ==
    /\ batch # <<>>
    /\ importState' = mergeImportState(batch, importState)
    /\ batch' = <<>>
    /\ plan' = NoPlan
    /\ UNCHANGED <<head, queries, pipeline, notImportVars>>

(***************************************************************************)
(* batchRpcCalls$ (batch-rpc-calls.ts).                                    *)
(***************************************************************************)
\* the items the upstream emits
NumItems == 4
\* callLockProtectedRpc gives up after this many retries (maxTotalRetryMs)
MaxRetries == 1

NoCall == [objs |-> <<>>, elapsed |-> 0, provider |-> "none"]

\* the outcomes of one attempt of processBatch
RpcErrorKinds == {"rate-limited", "missing-data", "archive-node-needed", "fatal"}

\* mutant: the error of processBatch is thrown as it is
workError_Unclassified(kind) == kind

\* work(): an error due to missing data becomes an ArchiveNodeNeededError
workError(kind) == IF kind = "missing-data" THEN "archive-node-needed" ELSE kind

\* callLockProtectedRpc: retry on a transient error until maxTotalRetryMs is
\* spent; a fatal or an archive-node-needed error is not retried
callLockProtectedRpc(error, elapsed) ==
    IF error = "rate-limited" /\ elapsed < MaxRetries THEN "retry" ELSE "throw"

\* getBatchConfigFromLimitations: methods lists, for every RPC method, count
\* (rpcCallsPerInputObj) and limit (limitations.methods, NoLimit when null)
NoLimit == -1
Max(a, b) == IF a >= b THEN a ELSE b

\* the loop over the methods: a method that is not used is skipped, a used
\* method without a limit disables the batch provider and ends the loop
RECURSIVE methodsLoop(_, _)
methodsLoop(methods, maxInputObjsPerBatch) ==
    IF methods = <<>>
    THEN [maxInputObjsPerBatch |-> maxInputObjsPerBatch, canUseBatchProvider |-> TRUE]
    ELSE LET count == Head(methods).count
             maxCount == Head(methods).limit
         IN IF count <= 0 THEN methodsLoop(Tail(methods), maxInputObjsPerBatch)
            ELSE IF maxCount = NoLimit
                 THEN [maxInputObjsPerBatch |-> maxInputObjsPerBatch,
                       canUseBatchProvider |-> FALSE]
                 ELSE methodsLoop(Tail(methods), Min(maxInputObjsPerBatch, maxCount \div count))

\* mutant: only the first method is looked at
getBatchConfigFromLimitations_FirstMethodOnly(maxInputTake, methods, minDelayBetweenCalls) ==
    methodsLoop(SubSeq(methods, 1, 1), maxInputTake)

getBatchConfigFromLimitations(maxInputTake, methods, minDelayBetweenCalls) ==
    LET loop == methodsLoop(methods, maxInputTake)
    IN IF loop.canUseBatchProvider THEN loop
       ELSE [maxInputObjsPerBatch |->
                IF minDelayBetweenCalls = "no-limit"
                THEN Max(1, maxInputTake \div 10)
                ELSE 1,
             canUseBatchProvider |-> FALSE]

BatchConfig ==
    getBatchConfigFromLimitations(rpcConfig.maxInputTake, rpcConfig.methods,
                                  rpcConfig.minDelayBetweenCalls)

Capacity == BatchConfig.maxInputObjsPerBatch

\* mutant: the errors are emitted for the first item of the group only
catchBatchError_FirstOnly(objs) ==
    [out |-> <<>>, err |-> SubSeq(objs, 1, 1), alive |-> TRUE]

\* the catch block of batchRpcCalls$: every item of the group is emitted as in
\* error, the group gives no output (Rx.EMPTY)
catchBatchError(objs) ==
    [out |-> <<>>, err |-> objs, alive |-> TRUE]

\* mutant: the items found before the missing one are emitted
mapResults_PartialOutputs(objs, has) ==
    IF \A i \in 1..Len(objs) : objs[i] \in has
    THEN [out |-> objs, err |-> <<>>, alive |-> TRUE]
    ELSE LET firstMissing == CHOOSE i \in 1..Len(objs) :
                                /\ objs[i] \notin has
                                /\ \A j \in 1..(i - 1) : objs[j] \in has
         IN [out |-> SubSeq(objs, 1, firstMissing - 1), err |-> objs, alive |-> TRUE]

\* the try block after the call: one formatOutput per item; an item without
\* a result in the map throws, inside the try, before anything is returned
mapResults(objs, has) ==
    IF \A i \in 1..Len(objs) : objs[i] \in has
    THEN [out |-> objs, err |-> <<>>, alive |-> TRUE]
    ELSE catchBatchError(objs)

\* bufferTime then filter: an emitted group is kept when it is not empty
EmitGroup(groups, objs) == IF Len(objs) > 0 THEN Append(groups, objs) ELSE groups

\* mutant: the buffer is never emitted for its size
bufferIsFull_Never(buffer, maxBufferSize) == FALSE

\* bufferTime: the buffer that just got an item is emitted when it holds
\* maxBufferSize items (a maxBufferSize of 0 is never reached)
bufferIsFull(buffer, maxBufferSize) == Len(buffer) = maxBufferSize

\* the upstream emits an item; bufferTime emits the buffer when it is full
RpcArrive ==
    /\ rpcAlive
    /\ rpcNext <= NumItems
    /\ rpcNext' = rpcNext + 1
    /\ LET buffer == Append(rpcBuffer, rpcNext)
       IN IF bufferIsFull(buffer, Capacity)
          THEN rpcGroups' = EmitGroup(rpcGroups, buffer) /\ rpcBuffer' = <<>>
          ELSE rpcGroups' = rpcGroups /\ rpcBuffer' = buffer
    /\ UNCHANGED <<rpcConfig, rpcCall, rpcOut, rpcErrors, rpcFailed, rpcThrown, rpcAlive, notRpcVars>>

\* maxInputWaitMs has passed: bufferTime emits what it holds
RpcTimerFlush ==
    /\ rpcAlive
    /\ rpcBuffer # <<>>
    /\ rpcGroups' = EmitGroup(rpcGroups, rpcBuffer)
    /\ rpcBuffer' = <<>>
    /\ UNCHANGED <<rpcConfig, rpcNext, rpcCall, rpcOut, rpcErrors, rpcFailed, rpcThrown, rpcAlive, notRpcVars>>

\* concatMap takes the next group once the previous one is done
RpcStartGroup ==
    /\ rpcAlive
    /\ rpcCall = NoCall
    /\ rpcGroups # <<>>
    /\ rpcCall' = [objs |-> Head(rpcGroups), elapsed |-> 0,
                   provider |-> IF BatchConfig.canUseBatchProvider THEN "batch" ELSE "linear"]
    /\ rpcGroups' = Tail(rpcGroups)
    /\ UNCHANGED <<rpcConfig, rpcNext, rpcBuffer, rpcOut, rpcErrors, rpcFailed, rpcThrown, rpcAlive, notRpcVars>>

Finish(outcome) ==
    /\ rpcOut' = rpcOut \o outcome.out
    /\ rpcErrors' = rpcErrors \o outcome.err
    /\ rpcAlive' = outcome.alive
    /\ rpcCall' = NoCall

\* processBatch resolves with a map that holds the results of the items in has
RpcCallSucceeds ==
    /\ rpcCall # NoCall
    /\ \E has \in SUBSET SeqToSet(rpcCall.objs) : Finish(mapResults(rpcCall.objs, has))
    /\ UNCHANGED <<rpcConfig, rpcNext, rpcBuffer, rpcGroups, rpcFailed, rpcThrown, notRpcVars>>

\* processBatch rejects and callLockProtectedRpc tries again
RpcCallRetries ==
    /\ rpcCall # NoCall
    /\ \E kind \in RpcErrorKinds :
         callLockProtectedRpc(workError(kind), rpcCall.elapsed) = "retry"
    /\ rpcCall' = [rpcCall EXCEPT !.elapsed = @ + 1]
    /\ UNCHANGED <<rpcConfig, rpcNext, rpcBuffer, rpcGroups, rpcOut, rpcErrors, rpcFailed, rpcThrown, rpcAlive, notRpcVars>>

\* processBatch rejects and callLockProtectedRpc throws: the terminal failure
RpcCallFails ==
    /\ rpcCall # NoCall
    /\ \E kind \in RpcErrorKinds :
         /\ callLockProtectedRpc(workError(kind), rpcCall.elapsed) = "throw"
         /\ rpcThrown' = rpcThrown \cup
                {[objs |-> rpcCall.objs, kind |-> kind, error |-> workError(kind)]}
    /\ Finish(catchBatchError(rpcCall.objs))
    /\ rpcFailed' = rpcFailed \cup {rpcCall.objs}
    /\ UNCHANGED <<rpcConfig, rpcNext, rpcBuffer, rpcGroups, notRpcVars>>

\* the stream configurations and RPC limitations: two RPC methods, each
\* with its calls per input object and its limit
MethodConfigs == [count : {0, 1, 3}, limit : {NoLimit, 2}]

RpcConfigs ==
    [maxInputTake : {3, 20},
     methods : {<<m1, m2>> : m1, m2 \in MethodConfigs},
     minDelayBetweenCalls : {"no-limit", "1s"}]

InitRpc ==
    /\ rpcConfig \in RpcConfigs
    /\ rpcNext = 1
    /\ rpcBuffer = <<>>
    /\ rpcGroups = <<>>
    /\ rpcCall = NoCall
    /\ rpcOut = <<>>
    /\ rpcErrors = <<>>
    /\ rpcFailed = {}
    /\ rpcThrown = {}
    /\ rpcAlive = TRUE

\* batchRpcCalls$ is not running
IdleRpc ==
    /\ rpcConfig = [maxInputTake |-> 1, methods |-> <<>>, minDelayBetweenCalls |-> "no-limit"]
    /\ rpcNext = 1
    /\ rpcBuffer = <<>>
    /\ rpcGroups = <<>>
    /\ rpcCall = NoCall
    /\ rpcOut = <<>>
    /\ rpcErrors = <<>>
    /\ rpcFailed = {}
    /\ rpcThrown = {}
    /\ rpcAlive = TRUE

\* no import is running
IdleImport ==
    /\ importState = DefaultImportState(0)
    /\ head = FirstHead
    /\ plan = NoPlan
    /\ queries = <<>>
    /\ batch = <<>>
    /\ pipeline = "historical"

NextRpc ==
    \/ RpcArrive
    \/ RpcTimerFlush
    \/ RpcStartGroup
    \/ RpcCallSucceeds
    \/ RpcCallRetries
    \/ RpcCallFails

InitImport ==
    /\ \E c \in 0..MaxCreatedAt : importState = DefaultImportState(c)
    /\ head = FirstHead
    /\ plan = NoPlan
    /\ queries = <<>>
    /\ batch = <<>>
    /\ pipeline \in {"historical", "historical2", "regular"}

NextImport ==
    \/ AdvanceHead
    \/ PlanHistorical
    \/ PlanHistorical2
    \/ PlanRegularInterval
    \/ FormBatch
    \/ UpdateImportState

(***************************************************************************)
(* updateImportState$ and addMissingImportState$ on the import_state       *)
(* table (import-state loader).                                            *)
(***************************************************************************)
\* the import keys of the table, in their lexicographic order
NumKeys == 2
Keys == 1..NumKeys
\* the transactions mergeMap runs at the same time (workConcurrency)
workConcurrency == 2
Txs == 1..workConcurrency
\* backOff: the executions of work() in total
numOfAttempts == 10
\* the runs of addMissingImportState$ on the table
NumFetchers == 2

\* a slot of mergeMap without a transaction
\* attempts: the executions of work() that failed; error: the last failure
IdleTxRec == [phase |-> "idle", items |-> <<>>, held |-> {}, read |-> <<>>, attempts |-> 0,
              error |-> "none"]

\* the result items transaction t may get: one item per key, in any order
\* of the keys, each with its success flag; the ranges of the two
\* transactions share a block
TxItems(t, keys, ok) ==
    [i \in 1..Len(keys) |->
        [key |-> keys[i], range |-> Range(t, t + 1), latest |-> t + 1 + waitForBlockPropagation,
         success |-> ok[i]]]

KeyOrders == {<<k>> : k \in Keys} \cup {<<k1, k2>> : k1, k2 \in Keys}

Batches(t) == {TxItems(t, keys, ok) : keys \in KeyOrders, ok \in [1..2 -> BOOLEAN]}

\* uniq(items.map(getImportStateKey)): the keys in the order of the items
RECURSIVE uniq(_)
uniq(vs) ==
    IF vs = <<>> THEN <<>>
    ELSE LET rest == uniq(SubSeq(vs, 1, Len(vs) - 1))
             last == vs[Len(vs)]
         IN IF last \in SeqToSet(rest) THEN rest ELSE Append(rest, last)

importKeys(items) == uniq([i \in 1..Len(items) |-> items[i].key])

\* mutant: the rows are locked in the order of the items
orderByImportKey_InputOrder(keys) == keys

\* ORDER BY import_key: the order in which SELECT ... FOR UPDATE locks rows
orderByImportKey(keys) == sortBy(keys)

\* the rows of the table among the keys, in the order they are locked
RowsToLock(items) ==
    LET InTable(k) == k \in DOMAIN dbRows
    IN SelectSeq(orderByImportKey(importKeys(items)), InTable)

\* mutant: a plain SELECT, which waits for no lock
rowIsFree_NoForUpdate(t, k) == TRUE

\* FOR UPDATE: the row lock is granted when no other transaction holds it
rowIsFree(t, k) == \A u \in Txs \ {t} : k \notin txs[u].held

\* the first row of the SELECT the transaction has not locked yet
NextToLock(t) ==
    LET rows == RowsToLock(txs[t].items)
        NotHeld(k) == k \notin txs[t].held
        left == SelectSeq(rows, NotHeld)
    IN IF left = <<>> THEN 0 ELSE Head(left)

\* groupBy(items, getImportStateKey)[k]
itemsOfKey(items, k) ==
    LET HasKey(it) == it.key = k
    IN SelectSeq(items, HasKey)

\* the items of a transaction, as the downstream and emitErrors see them
ItemIds(t) == [i \in 1..Len(txs[t].items) |-> <<t, i>>]

\* mergeMap starts the transaction of a buffered group of items
TxBegin(t) ==
    /\ txAlive
    /\ txs[t].phase = "idle"
    /\ \E items \in Batches(t) :
         txs' = [txs EXCEPT ![t] = [IdleTxRec EXCEPT !.phase = "running", !.items = items]]
    /\ UNCHANGED <<dbRows, txOut, txErrors, txAlive, fetchers, notTxVars>>

\* SELECT ... ORDER BY import_key FOR UPDATE locks and reads the next row
TxLockNext(t) ==
    LET k == NextToLock(t)
    IN /\ txs[t].phase = "running"
       /\ k # 0
       /\ rowIsFree(t, k)
       /\ txs' = [txs EXCEPT ![t].held = @ \cup {k},
                             ![t].read = [x \in (DOMAIN @) \cup {k} |->
                                             IF x = k THEN dbRows[k] ELSE @[x]]]
       /\ UNCHANGED <<dbRows, txOut, txErrors, txAlive, fetchers, notTxVars>>

\* every row of the SELECT is locked and every key has its row: the merged
\* states are written, the transaction commits, the items are emitted
TxCommit(t) ==
    LET items == txs[t].items
        keys == SeqToSet(importKeys(items))
    IN /\ txs[t].phase = "running"
       /\ NextToLock(t) = 0
       /\ keys \subseteq DOMAIN txs[t].read
       /\ dbRows' = [k \in DOMAIN dbRows |->
                       IF k \in keys
                       THEN mergeImportState(itemsOfKey(items, k), txs[t].read[k])
                       ELSE dbRows[k]]
       /\ txOut' = IF txAlive THEN txOut \o ItemIds(t) ELSE txOut
       /\ txs' = [txs EXCEPT ![t] = [@ EXCEPT !.phase = "done", !.held = {}, !.read = <<>>,
                                               !.error = "none"]]
       /\ UNCHANGED <<txErrors, txAlive, fetchers, notTxVars>>

UpdateErrors == {"ConnectionTimeoutError", "DatabaseError"}

\* backOff: work() is run again when retry(error) says so and fewer than
\* numOfAttempts executions were made
backOff(error, attemptNumber) ==
    IF error = "ConnectionTimeoutError" /\ attemptNumber < numOfAttempts
    THEN "retry" ELSE "throw"

\* mutant: the items of a transaction that timed out are dropped
catchUpdateError_Silent(ids, error) ==
    [err |-> <<>>, alive |-> error = "ConnectionTimeoutError"]

\* the catch block of updateImportState$: the items of a transaction that
\* timed out are emitted as errors, any other error is thrown again
catchUpdateError(ids, error) ==
    IF error = "ConnectionTimeoutError"
    THEN [err |-> ids, alive |-> TRUE]
    ELSE [err |-> <<>>, alive |-> FALSE]

\* the transaction is rolled back and backOff throws its error
TxThrow(t, error) ==
    LET outcome == catchUpdateError(ItemIds(t), error)
    IN /\ txErrors' = txErrors \o outcome.err
       /\ txAlive' = (txAlive /\ outcome.alive)
       /\ txs' = [txs EXCEPT ![t] = [@ EXCEPT !.phase = "done", !.held = {}, !.read = <<>>,
                                               !.attempts = @ + 1, !.error = error]]

\* an execution of work() fails and backOff runs it again
TxRetries(t) ==
    /\ txs[t].phase = "running"
    /\ \E error \in UpdateErrors :
         /\ backOff(error, txs[t].attempts + 1) = "retry"
         /\ txs' = [txs EXCEPT ![t] = [@ EXCEPT !.held = {}, !.read = <<>>, !.attempts = @ + 1,
                                                 !.error = error]]
    /\ UNCHANGED <<dbRows, txOut, txErrors, txAlive, fetchers, notTxVars>>

\* an execution of work() fails and backOff gives up
TxGivesUp(t) ==
    /\ txs[t].phase = "running"
    /\ \E error \in UpdateErrors :
         /\ backOff(error, txs[t].attempts + 1) = "throw"
         /\ TxThrow(t, error)
    /\ UNCHANGED <<dbRows, txOut, fetchers, notTxVars>>

\* a key of the items has no row: the transaction throws a ProgrammerError
TxMissingRow(t) ==
    /\ txs[t].phase = "running"
    /\ NextToLock(t) = 0
    /\ ~(SeqToSet(importKeys(txs[t].items)) \subseteq DOMAIN txs[t].read)
    /\ backOff("ProgrammerError", txs[t].attempts + 1) = "throw"
    /\ TxThrow(t, "ProgrammerError")
    /\ UNCHANGED <<dbRows, txOut, fetchers, notTxVars>>

IdleFetcher == [phase |-> "idle", key |-> 0]

\* jsonb_merge(import_state.import_data, EXCLUDED.import_data): the fields
\* of the new payload replace those of the stored one, lists as a whole
jsonb_merge(stored, excluded) ==
    [contractCreatedAtBlock |-> excluded.contractCreatedAtBlock,
     chainLatestBlockNumber |-> excluded.chainLatestBlockNumber,
     ranges |-> [coveredRanges |-> excluded.ranges.coveredRanges,
                 toRetry |-> excluded.ranges.toRetry]]

\* INSERT ... ON CONFLICT (import_key) DO UPDATE
upsertImportState(rows, k, importData) ==
    [x \in (DOMAIN rows) \cup {k} |->
        IF x # k THEN rows[x]
        ELSE IF k \in DOMAIN rows THEN jsonb_merge(rows[k], importData)
        ELSE importData]

\* addMissingImportState$: fetchImportState$ looks for the row of the key
FetchImportState(p) ==
    /\ fetchers[p].phase = "idle"
    /\ \E k \in Keys :
         fetchers' = [fetchers EXCEPT ![p] =
                        [phase |-> IF k \in DOMAIN dbRows THEN "present" ELSE "missing",
                         key |-> k]]
    /\ UNCHANGED <<dbRows, txs, txOut, txErrors, txAlive, notTxVars>>

\* addMissingImportState$: the default import state of a key that had no
\* row is upserted
UpsertImportState(p) ==
    /\ fetchers[p].phase = "missing"
    /\ dbRows' = upsertImportState(dbRows, fetchers[p].key, DefaultImportState(0))
    /\ fetchers' = [fetchers EXCEPT ![p].phase = "present"]
    /\ UNCHANGED <<txs, txOut, txErrors, txAlive, notTxVars>>

\* every key has its row, with the default import state
InitUpdateTx ==
    /\ dbRows = [k \in Keys |-> DefaultImportState(0)]
    /\ txs = [t \in Txs |-> IdleTxRec]
    /\ txOut = <<>>
    /\ txErrors = <<>>
    /\ txAlive = TRUE
    /\ fetchers = [p \in 1..NumFetchers |-> IdleFetcher]

\* the table is empty
InitAddMissing ==
    /\ dbRows = <<>>
    /\ txs = [t \in Txs |-> IdleTxRec]
    /\ txOut = <<>>
    /\ txErrors = <<>>
    /\ txAlive = TRUE
    /\ fetchers = [p \in 1..NumFetchers |-> IdleFetcher]

\* no operator works on the table
IdleTx ==
    /\ dbRows = <<>>
    /\ txs = [t \in Txs |-> IdleTxRec]
    /\ txOut = <<>>
    /\ txErrors = <<>>
    /\ txAlive = TRUE
    /\ fetchers = [p \in 1..NumFetchers |-> IdleFetcher]

NextUpdateTx ==
    \/ \E t \in Txs : TxBegin(t)
    \/ \E t \in Txs : TxLockNext(t)
    \/ \E t \in Txs : TxCommit(t)
    \/ \E t \in Txs : TxRetries(t)
    \/ \E t \in Txs : TxGivesUp(t)

NextAddMissing ==
    \/ \E p \in 1..NumFetchers : FetchImportState(p)
    \/ \E p \in 1..NumFetchers : UpsertImportState(p)
    \/ \E t \in Txs : TxBegin(t)
    \/ \E t \in Txs : TxLockNext(t)
    \/ \E t \in Txs : TxCommit(t)
    \/ \E t \in Txs : TxMissingRow(t)

(***************************************************************************)
(* fixedBatchSend of monkeyPatchEthersBatchProvider (utils/ethers.ts).     *)
(***************************************************************************)
\* the calls of provider.send
NumRequests == 3

\* the promise of a request: state is "none" before the request is sent,
\* then "pending", "resolved" or "rejected"; of is the id of the request
\* whose response element settled it, 0 for an error of the whole batch
NoRequest == [state |-> "none", of |-> 0]

\* the orders in which the elements of a batch of n requests may come back
ResponseOrders(n) == {p \in [1..n -> 1..n] : \A i, j \in 1..n : p[i] = p[j] => i = j}

\* the arrays the transport may answer to a batch: one element per request,
\* in any order, each a result or an error, or an array one element short
ArrayResponses(inflight) ==
    LET n == Len(inflight)
        full == {[i \in 1..n |-> [id |-> inflight[p[i]], error |-> e[i]]] :
                    p \in ResponseOrders(n), e \in [1..n -> BOOLEAN]}
    IN full \cup {SubSeq(r, 1, n - 1) : r \in full}

\* the answers that are not an array, and a failure of fetchJson itself
BatchFailures == {"error-object", "not-an-array", "fetch-error"}

\* mutant: only the first caller of the batch is rejected
rejectBatch_FirstOnly(inflight, settled) ==
    [id \in DOMAIN settled |->
        IF inflight # <<>> /\ id = inflight[1] /\ settled[id].state = "pending"
        THEN [state |-> "rejected", of |-> 0]
        ELSE settled[id]]

\* the catch handler: every inflight request of the batch is rejected; a
\* promise that is already settled stays as it is
rejectBatch(inflight, settled) ==
    [id \in DOMAIN settled |->
        IF id \in SeqToSet(inflight) /\ settled[id].state = "pending"
        THEN [state |-> "rejected", of |-> 0]
        ELSE settled[id]]

\* the then handler on an array: the inflight request at index i gets
\* result[i]; a missing element throws in the loop, which the catch handler
\* turns into a rejection of the batch
routeBatch(inflight, result, settled) ==
    LET IndexOf(id) == CHOOSE i \in 1..Len(inflight) : inflight[i] = id
        routed == [id \in DOMAIN settled |->
                     IF id \in SeqToSet(inflight) /\ IndexOf(id) <= Len(result)
                     THEN LET payload == result[IndexOf(id)]
                          IN [state |-> IF payload.error THEN "rejected" ELSE "resolved",
                              of |-> payload.id]
                     ELSE settled[id]]
    IN IF Len(result) < Len(inflight) THEN rejectBatch(inflight, routed) ELSE routed

\* mutant: the aggregator is scheduled by every call
BpSend_AlwaysSchedules ==
    /\ bpNextId <= NumRequests
    /\ bpNextId' = bpNextId + 1
    /\ bpPending' = Append(bpPending, bpNextId)
    /\ bpTimer' = TRUE
    /\ bpTimers' = bpTimers + 1
    /\ bpSettled' = [bpSettled EXCEPT ![bpNextId] = [state |-> "pending", of |-> 0]]
    /\ UNCHANGED <<bpFlights, bpAnswered, notBpVars>>

\* provider.send: the request joins the pending batch; the aggregator is
\* scheduled when none is
BpSend ==
    /\ bpNextId <= NumRequests
    /\ bpNextId' = bpNextId + 1
    /\ bpPending' = Append(bpPending, bpNextId)
    /\ bpTimer' = TRUE
    /\ bpTimers' = IF bpTimer THEN bpTimers ELSE bpTimers + 1
    /\ bpSettled' = [bpSettled EXCEPT ![bpNextId] = [state |-> "pending", of |-> 0]]
    /\ UNCHANGED <<bpFlights, bpAnswered, notBpVars>>

\* a scheduled aggregator runs: the pending batch is taken and posted
BpFlush ==
    /\ bpTimers > 0
    /\ bpTimers' = bpTimers - 1
    /\ bpTimer' = FALSE
    /\ bpPending' = <<>>
    /\ bpFlights' = bpFlights \cup {bpPending}
    /\ UNCHANGED <<bpNextId, bpAnswered, bpSettled, notBpVars>>

\* the transport answers a batch with an array
BpArrayAnswer ==
    \E inflight \in bpFlights : \E result \in ArrayResponses(inflight) :
        /\ bpFlights' = bpFlights \ {inflight}
        /\ bpAnswered' = bpAnswered \cup {[requests |-> inflight, answer |-> "array", result |-> result]}
        /\ bpSettled' = routeBatch(inflight, result, bpSettled)
        /\ UNCHANGED <<bpNextId, bpPending, bpTimer, bpTimers, notBpVars>>

\* the transport answers a batch with something else, or fetchJson fails
BpBatchFailure ==
    \E inflight \in bpFlights, failure \in BatchFailures :
        /\ bpFlights' = bpFlights \ {inflight}
        /\ bpAnswered' = bpAnswered \cup {[requests |-> inflight, answer |-> failure, result |-> <<>>]}
        /\ bpSettled' = rejectBatch(inflight, bpSettled)
        /\ UNCHANGED <<bpNextId, bpPending, bpTimer, bpTimers, notBpVars>>

InitBp ==
    /\ bpNextId = 1
    /\ bpPending = <<>>
    /\ bpTimer = FALSE
    /\ bpTimers = 0
    /\ bpFlights = {}
    /\ bpAnswered = {}
    /\ bpSettled = [id \in 1..NumRequests |-> NoRequest]

\* the provider is not used
IdleBp ==
    /\ bpNextId = 1
    /\ bpPending = <<>>
    /\ bpTimer = FALSE
    /\ bpTimers = 0
    /\ bpFlights = {}
    /\ bpAnswered = {}
    /\ bpSettled = <<>>

NextBp ==
    \/ BpSend
    \/ BpFlush
    \/ BpArrayAnswer
    \/ BpBatchFailure

(***************************************************************************)
(* The historical import of one key, from the planner to the import-state  *)
(* update, with its RPC step: the planned queries go through               *)
(* batchRpcCalls$; its outputs are the successful results, the items it    *)
(* passes to emitErrors are the failed ones.                               *)
(***************************************************************************)
\* batchRpcCalls$ holds no item and has nothing to report
RpcIsIdle ==
    /\ rpcBuffer = <<>>
    /\ rpcGroups = <<>>
    /\ rpcCall = NoCall
    /\ rpcOut = <<>>
    /\ rpcErrors = <<>>

\* a result of the import, as updateImportState$ gets it
AsResult(query, success) ==
    [range |-> query.range, latest |-> query.latest, success |-> success]

\* a tick of the pipeline, once the previous one is over
PipePlan ==
    /\ RpcIsIdle
    /\ PlanHistorical

\* the next planned query reaches batchRpcCalls$; with the first query of a
\* tick, rpcFailed and rpcThrown start again
PipeArrive ==
    /\ rpcAlive
    /\ queries # <<>>
    /\ queries' = Tail(queries)
    /\ rpcFailed' = IF RpcIsIdle THEN {} ELSE rpcFailed
    /\ rpcThrown' = IF RpcIsIdle THEN {} ELSE rpcThrown
    /\ LET buffer == Append(rpcBuffer, Head(queries))
       IN IF bufferIsFull(buffer, Capacity)
          THEN rpcGroups' = EmitGroup(rpcGroups, buffer) /\ rpcBuffer' = <<>>
          ELSE rpcGroups' = rpcGroups /\ rpcBuffer' = buffer
    /\ UNCHANGED <<rpcConfig, rpcNext, rpcCall, rpcOut, rpcErrors, rpcAlive>>
    /\ UNCHANGED <<importState, head, plan, batch, pipeline, notPipelineVars>>

\* the results of the tick reach updateImportState$: the outputs of the RPC
\* step with success, the items it emitted as errors without
PipeFormBatch ==
    /\ batch = <<>>
    /\ queries = <<>>
    /\ rpcBuffer = <<>> /\ rpcGroups = <<>> /\ rpcCall = NoCall
    /\ rpcOut \o rpcErrors # <<>>
    /\ batch' = [i \in 1..Len(rpcOut) |-> AsResult(rpcOut[i], TRUE)]
                \o [i \in 1..Len(rpcErrors) |-> AsResult(rpcErrors[i], FALSE)]
    /\ rpcOut' = <<>>
    /\ rpcErrors' = <<>>
    /\ UNCHANGED <<rpcConfig, rpcNext, rpcBuffer, rpcGroups, rpcCall, rpcFailed, rpcThrown, rpcAlive>>
    /\ UNCHANGED <<importState, head, plan, queries, pipeline, notPipelineVars>>

\* one historical import, its RPC allowing two items per call
InitPipeline ==
    /\ importState = DefaultImportState(0)
    /\ head = FirstHead
    /\ plan = NoPlan
    /\ queries = <<>>
    /\ batch = <<>>
    /\ pipeline = "historical"
    /\ rpcConfig = [maxInputTake |-> 3, methods |-> <<[count |-> 1, limit |-> 2]>>,
                    minDelayBetweenCalls |-> "1s"]
    /\ rpcNext = 1
    /\ rpcBuffer = <<>>
    /\ rpcGroups = <<>>
    /\ rpcCall = NoCall
    /\ rpcOut = <<>>
    /\ rpcErrors = <<>>
    /\ rpcFailed = {}
    /\ rpcThrown = {}
    /\ rpcAlive = TRUE

NextPipeline ==
    \/ PipePlan
    \/ PipeArrive
    \/ RpcTimerFlush
    \/ RpcStartGroup
    \/ RpcCallSucceeds
    \/ RpcCallRetries
    \/ RpcCallFails
    \/ PipeFormBatch
    \/ UpdateImportState

(***************************************************************************)
(* fetchERC20TransferEvents (connector/erc20-transfers.ts): the Transfer   *)
(* events of the queried tokens become two signed entries each, one for    *)
(* the sender and one for the receiver, and the entries of one token,      *)
(* owner and block are merged into one record.                             *)
(***************************************************************************)
\* at most this many Transfer events on the chain
MaxEvents == 3
\* the last block of the chain logs
MaxLogBlock == 2

Tokens == {"T1", "T2"}
Owners == {"O1", "O2"}
Values == {30, 100}
\* the trackAddress of a call that tracks no address
NoTrack == "none"

\* the next Transfer event of the chain: in the block of the last one with
\* the next logIndex, or the first of a later block; one transaction each
NextEvents ==
    LET n == Len(chainLogs)
        last == chainLogs[n]
        Positions == IF n = 0 THEN {<<b, 0>> : b \in 1..MaxLogBlock}
                     ELSE {<<last.blockNumber, last.logIndex + 1>>}
                          \cup {<<b, 0>> : b \in (last.blockNumber + 1)..MaxLogBlock}
    IN {[token |-> t, from |-> f, to |-> o, value |-> v, blockNumber |-> p[1],
         logIndex |-> p[2], transactionHash |-> n + 1] :
          t \in Tokens, f \in Owners, o \in Owners, v \in Values, p \in Positions}

LogTransfer ==
    /\ ~fetched
    /\ Len(chainLogs) < MaxEvents
    /\ \E e \in NextEvents : chainLogs' = Append(chainLogs, e)
    /\ UNCHANGED <<contractCalls, transfers, fetched, notEtVars>>

\* contract.queryFilter(filter, fromBlock, toBlock): the events of the token
\* that match the filter, in log order
queryFilter(address, from, to) ==
    LET Matches(e) == /\ e.token = address
                      /\ from \in {NoTrack, e.from}
                      /\ to \in {NoTrack, e.to}
    IN SelectSeq(chainLogs, Matches)

\* the two lists of events of one contract call
eventsRes(contractCall) ==
    IF contractCall.trackAddress # NoTrack
    THEN <<queryFilter(contractCall.address, contractCall.trackAddress, NoTrack),
           queryFilter(contractCall.address, NoTrack, contractCall.trackAddress)>>
    ELSE <<queryFilter(contractCall.address, NoTrack, NoTrack), <<>>>>

\* the two entries of every event of a list: the sender loses the value and
\* the receiver gets it
RECURSIVE TransferEntries(_, _)
TransferEntries(contractCall, events) ==
    IF events = <<>> THEN <<>>
    ELSE LET event == Head(events)
         IN << [tokenAddress |-> contractCall.address, ownerAddress |-> event.from,
                blockNumber |-> event.blockNumber, transactionHash |-> event.transactionHash,
                amountTransfered |-> 0 - event.value, logIndex |-> event.logIndex],
               [tokenAddress |-> contractCall.address, ownerAddress |-> event.to,
                blockNumber |-> event.blockNumber, transactionHash |-> event.transactionHash,
                amountTransfered |-> event.value, logIndex |-> event.logIndex] >>
            \o TransferEntries(contractCall, Tail(events))

\* flatten(zipWith(doubledContractCall, eventsRes, ...))
RECURSIVE AllEntries(_)
AllEntries(calls) ==
    IF calls = <<>> THEN <<>>
    ELSE TransferEntries(Head(calls), eventsRes(Head(calls))[1])
         \o TransferEntries(Head(calls), eventsRes(Head(calls))[2])
         \o AllEntries(Tail(calls))

\* the key of groupBy: `${tokenAddress}-${ownerAddress}-${blockNumber}`
GroupKey(entry) == <<entry.tokenAddress, entry.ownerAddress, entry.blockNumber>>

\* the keys of a list of entries, in the order of their first occurrence
RECURSIVE GroupKeys(_)
GroupKeys(entries) ==
    IF entries = <<>> THEN <<>>
    ELSE LET k == GroupKey(Head(entries))
             NotK(e) == GroupKey(e) # k
         IN <<k>> \o GroupKeys(SelectSeq(Tail(entries), NotK))

\* the entries of one key, in the order of the list
GroupOf(entries, k) ==
    LET HasK(e) == GroupKey(e) = k
    IN SelectSeq(entries, HasK)

\* totalDiff: the sum of the amounts of a group
RECURSIVE totalDiff(_)
totalDiff(group) ==
    IF group = <<>> THEN 0
    ELSE Head(group).amountTransfered + totalDiff(Tail(group))

\* insert e in a list sorted by decreasing logIndex, after the entries with
\* an equal logIndex
RECURSIVE InsertByLogIndex(_, _)
InsertByLogIndex(e, s) ==
    IF s = <<>> THEN <<e>>
    ELSE IF e.logIndex > Head(s).logIndex THEN <<e>> \o s
    ELSE <<Head(s)>> \o InsertByLogIndex(e, Tail(s))

\* transfers.sort((a, b) => b.logIndex - a.logIndex): in place, stable
RECURSIVE sortByLogIndexDesc(_)
sortByLogIndexDesc(group) ==
    IF group = <<>> THEN <<>>
    ELSE InsertByLogIndex(group[Len(group)], sortByLogIndexDesc(SubSeq(group, 1, Len(group) - 1)))

\* the record of a group: the first entry of the sorted group, with the hash
\* of that entry and the total in the field sharesBalanceDiff
mergeGroup(group) ==
    LET sorted == sortByLogIndexDesc(group)
        lastTrxHash == sorted[1].transactionHash
    IN [tokenAddress |-> sorted[1].tokenAddress, ownerAddress |-> sorted[1].ownerAddress,
        blockNumber |-> sorted[1].blockNumber, transactionHash |-> lastTrxHash,
        amountTransfered |-> sorted[1].amountTransfered, logIndex |-> sorted[1].logIndex,
        sharesBalanceDiff |-> totalDiff(group)]

fetchERC20TransferEvents(calls) ==
    LET events == AllEntries(calls)
        keys == GroupKeys(events)
    IN [i \in 1..Len(keys) |-> mergeGroup(GroupOf(events, keys[i]))]

\* the calls fetchErc20Transfers$ makes: one per token and tracked address
CallLists ==
    LET Calls == [address : Tokens, trackAddress : Owners \cup {NoTrack}]
    IN {<<c>> : c \in Calls}
       \cup {<<c1, c2>> : c1 \in {c \in Calls : c.address = "T1"},
                         c2 \in {c \in Calls : c.address = "T2"}}

FetchTransfers ==
    /\ ~fetched
    /\ \E calls \in CallLists :
          /\ contractCalls' = calls
          /\ transfers' = fetchERC20TransferEvents(calls)
    /\ fetched' = TRUE
    /\ UNCHANGED <<chainLogs, notEtVars>>

InitEt ==
    /\ chainLogs = <<>>
    /\ contractCalls = <<>>
    /\ transfers = <<>>
    /\ fetched = FALSE

IdleEt ==
    /\ chainLogs = <<>>
    /\ contractCalls = <<>>
    /\ transfers = <<>>
    /\ fetched = TRUE

NextEt ==
    \/ LogTransfer
    \/ FetchTransfers

(***************************************************************************)
(* addLatestBlockQuery$ (connector/import-queries.ts): the range of the    *)
(* most recent blocks the live import queries.                             *)
(***************************************************************************)
\* getLastImportedBlock returned null
NoLastImported == -1

\* Math.floor(samplingPeriodMs["1hour"] / MS_PER_BLOCK_ESTIMATE[chain]), one
\* value per chain
PeriodInBlockCountEstimates == {1, 3}

NoLatestQuery == [range |-> Range(0, 0), latestBlockNumber |-> -1,
                  lastImported |-> NoLastImported, period |-> 0]

\* lastImportedBlockNumber ? ... : Infinity, where null and 0 are falsy
isTruthy(n) == n # NoLastImported /\ n # 0

diffBetweenLastImported(latest, lastImportedBlockNumber) ==
    IF isTruthy(lastImportedBlockNumber) THEN latest - (lastImportedBlockNumber + 1)
    ELSE Infinity

\* the mergeMap of addLatestBlockQuery$
addLatestBlockQuery(latest, lastImportedBlockNumber, periodInBlockCountEstimate) ==
    LET blockCountToFetch ==
            Min(Min(maxBlocksPerQuery, periodInBlockCountEstimate),
                diffBetweenLastImported(latest, lastImportedBlockNumber))
        fromBlock == latest - blockCountToFetch
        toBlock == latest
    IN Range(fromBlock - waitForBlockPropagation, toBlock - waitForBlockPropagation)

\* the caller records the last block it imported
SetLastImported ==
    /\ \E b \in 0..head : lastImported' = b
    /\ UNCHANGED <<latestQuery, notLqVars>>

\* a tick of the live import
PlanLatest ==
    /\ \E period \in PeriodInBlockCountEstimates, force \in {NoForce, ForcedBlock} :
          LET latest == latestBlockNumber(head, force)
          IN latestQuery' = [range |-> addLatestBlockQuery(latest, lastImported, period),
                             latestBlockNumber |-> latest,
                             lastImported |-> lastImported, period |-> period]
    /\ UNCHANGED <<lastImported, notLqVars>>

InitLq ==
    /\ \E c \in 0..MaxCreatedAt : importState = DefaultImportState(c)
    /\ head \in 0..MaxHead
    /\ plan = NoPlan
    /\ queries = <<>>
    /\ batch = <<>>
    /\ pipeline = "live"
    /\ lastImported = NoLastImported
    /\ latestQuery = NoLatestQuery

IdleLq ==
    /\ lastImported = NoLastImported
    /\ latestQuery = NoLatestQuery

NextLq ==
    \/ AdvanceHead
    \/ SetLastImported
    \/ PlanLatest

(***************************************************************************)
(* The historical import on a chain with the constants of the planner      *)
(* scenarios: contract created at block 900, chain head 1000, at most 40   *)
(* blocks per query.                                                       *)
(***************************************************************************)
\* CHAIN_RPC_MAX_QUERY_BLOCKS[chain] of this chain
ScenarioMaxBlocksPerQuery == 40
ScenarioCreatedAt == 900
ScenarioHeads == {1000, 1005}

\* the rows the import of this key has stored: what was covered before, and
\* the range that failed, which is covered as well
ScenarioStates ==
    {[contractCreatedAtBlock |-> ScenarioCreatedAt, chainLatestBlockNumber |-> 0,
      ranges |-> [coveredRanges |-> cov, toRetry |-> retry]] :
        cov \in {<<>>, <<Range(900, 950)>>, <<Range(900, 950), Range(960, 1000)>>},
        retry \in {<<>>, <<Range(910, 915)>>}}

\* a tick of the historical pipeline on this chain; no block number is forced
PlanScenario ==
    LET full == <<fullRange(importState, head)>>
        ranges == restrictRangesWithImportState(full, importState, ScenarioMaxBlocksPerQuery)
    IN /\ pipeline = "historical"
       /\ CanPlan
       /\ plan' = [kind |-> "historical", ranges |-> ranges,
                   nAvailable |-> Available(full, importState, ScenarioMaxBlocksPerQuery),
                   nPrimary |-> PrimaryCount(full, importState, ScenarioMaxBlocksPerQuery),
                   latest |-> head, force |-> NoForce]
       /\ queries' = queries \o AsQueries(ranges, head)
       /\ UNCHANGED <<importState, head, batch, pipeline, notImportVars>>

InitScenarios ==
    /\ importState \in {st \in ScenarioStates :
                          BlocksOf(st.ranges.toRetry) \subseteq BlocksOf(st.ranges.coveredRanges)}
    /\ head \in ScenarioHeads
    /\ plan = NoPlan
    /\ queries = <<>>
    /\ batch = <<>>
    /\ pipeline = "historical"

NextScenarios ==
    \/ PlanScenario
    \/ FormBatch
    \/ UpdateImportState

(***************************************************************************)
(* Invocations of addHistoricalBlockQuery$, in its two variants, recorded  *)
(* with their inputs.                                                      *)
(***************************************************************************)
\* at most this many invocations are recorded
MaxRuns == 2

\* latestBlockNumber$ of the second variant: options.forceCurrentBlockNumber
\* is not read, the block number is the one getBlockNumber returns
latestBlockNumber2(chainHead, force) == chainHead

\* the head the caller asked for: the forced one when there is one
HeadInput(run) == IF run.force # NoForce THEN run.force ELSE run.head

\* an invocation of the planner of the pipeline, on the stored import state;
\* the results of the previous invocation may not be stored yet
RunPlanner ==
    \E force \in {NoForce, ForcedBlock} :
        LET latest == IF pipeline = "historical" THEN latestBlockNumber(head, force)
                      ELSE latestBlockNumber2(head, force)
            ranges == IF pipeline = "historical"
                      THEN addHistoricalBlockQuery(importState, latest, force)
                      ELSE addHistoricalBlockQuery2(importState, latest)
        IN /\ pipeline \in {"historical", "historical2"}
           /\ Len(runs) < MaxRuns
           /\ plan' = [kind |-> pipeline, ranges |-> ranges,
                       nAvailable |-> Available(<<fullRange(importState, latest)>>, importState, maxBlocksPerQuery),
                       nPrimary |-> PrimaryCount(<<fullRange(importState, latest)>>, importState, maxBlocksPerQuery),
                       latest |-> latest, force |-> force]
           /\ queries' = queries \o AsQueries(ranges, latest)
           /\ runs' = Append(runs, [variant |-> pipeline, importState |-> importState,
                                    head |-> head, force |-> force,
                                    latestBlockNumber |-> latest, ranges |-> ranges])
           /\ UNCHANGED <<importState, head, batch, pipeline, notPlannerVars>>

InitRuns ==
    /\ \E c \in 0..MaxCreatedAt : importState = DefaultImportState(c)
    /\ head = FirstHead
    /\ plan = NoPlan
    /\ queries = <<>>
    /\ batch = <<>>
    /\ pipeline \in {"historical", "historical2"}
    /\ runs = <<>>

IdleRuns == runs = <<>>

NextRuns ==
    \/ AdvanceHead
    \/ RunPlanner
    \/ FormBatch
    \/ UpdateImportState

(***************************************************************************)
(* The scheduled historical import of one key: ticks without a forced      *)
(* block number, each followed by the update of the import state.          *)
(***************************************************************************)
\* a scheduled tick of the historical pipeline: forceCurrentBlockNumber is null
TickHistorical ==
    LET ranges == addHistoricalBlockQuery(importState, head, NoForce)
    IN /\ pipeline = "historical"
       /\ CanPlan
       /\ plan' = [kind |-> "historical", ranges |-> ranges,
                   nAvailable |-> Available(<<fullRange(importState, head)>>, importState, maxBlocksPerQuery),
                   nPrimary |-> PrimaryCount(<<fullRange(importState, head)>>, importState, maxBlocksPerQuery),
                   latest |-> head, force |-> NoForce]
       /\ queries' = queries \o AsQueries(ranges, head)
       /\ UNCHANGED <<importState, head, batch, pipeline, notImportVars>>

InitCatchUp ==
    /\ \E c \in 0..MaxCreatedAt : importState = DefaultImportState(c)
    /\ head = FirstHead
    /\ plan = NoPlan
    /\ queries = <<>>
    /\ batch = <<>>
    /\ pipeline \in {"historical", "historical2"}

NextCatchUp ==
    \/ AdvanceHead
    \/ TickHistorical
    \/ PlanHistorical2
    \/ FormBatch
    \/ UpdateImportState

(***************************************************************************)
(* latestBlockNumber$ (import-queries.ts, second variant): getBlockNumber  *)
(* under backOff, behind cacheOperatorResult$ keyed by the chain.          *)
(***************************************************************************)
\* the items that go through latestBlockNumber$
NumCallers == 3
Callers == 1..NumCallers

Chains == {"bsc", "fantom"}

\* stdTTLSec: 60
stdTTLSec == 60

\* mutant: one cache key per item
getCacheKey_PerCaller(i, chain) == <<chain, i>>

\* getCacheKey: () => options.rpcConfig.chain
getCacheKey(i, chain) == chain

\* the entry of a key, if there is one
HasEntry(key) == \E e \in lbCache : e.key = key
EntryOf(key) == CHOOSE e \in lbCache : e.key = key

\* the calls of the operator of one chain that mergeMap runs
CallsOf(chain) == {call \in lbCalls : call.chain = chain}

\* an item arrives: it takes the cached result of its key, or waits for the
\* result in flight, or starts the call when the cache has no entry
LbArrive(i) ==
    /\ lbCallers[i].phase = "upstream"
    /\ LET chain == lbCallers[i].chain
           key == getCacheKey(i, chain)
       IN IF HasEntry(key) /\ EntryOf(key).state = "cached"
          THEN /\ lbCallers' = [lbCallers EXCEPT ![i].phase = "done",
                                                 ![i].value = EntryOf(key).value]
               /\ UNCHANGED <<lbCache, lbCalls>>
          ELSE IF HasEntry(key)
          THEN /\ lbCallers' = [lbCallers EXCEPT ![i].phase = "waiting"]
               /\ UNCHANGED <<lbCache, lbCalls>>
          ELSE /\ Cardinality(CallsOf(chain)) < workConcurrency
               /\ lbCallers' = [lbCallers EXCEPT ![i].phase = "waiting"]
               /\ lbCache' = lbCache \cup {[key |-> key, state |-> "inflight", value |-> 0, age |-> 0]}
               /\ lbCalls' = lbCalls \cup {[key |-> key, chain |-> chain, attempts |-> 0]}
    /\ UNCHANGED notLbVars

\* the items that wait for the result of a key
WaitingFor(key) ==
    {i \in Callers : lbCallers[i].phase = "waiting" /\ getCacheKey(i, lbCallers[i].chain) = key}

\* getBlockNumber returns: the result is cached and given to the items that
\* wait for it
LbCallReturns(call) ==
    /\ lbCalls' = lbCalls \ {call}
    /\ lbCache' = (lbCache \ {EntryOf(call.key)})
                    \cup {[key |-> call.key, state |-> "cached", value |-> head, age |-> 0]}
    /\ lbCallers' = [i \in Callers |->
                        IF i \in WaitingFor(call.key)
                        THEN [lbCallers[i] EXCEPT !.phase = "done", !.value = head]
                        ELSE lbCallers[i]]
    /\ UNCHANGED notLbVars

\* getBlockNumber fails and backOff calls it again
LbCallRetries(call) ==
    /\ call.attempts < MaxRetries
    /\ lbCalls' = (lbCalls \ {call}) \cup {[call EXCEPT !.attempts = call.attempts + 1]}
    /\ UNCHANGED <<lbCache, lbCallers, notLbVars>>

\* backOff gives up: nothing is cached and the items that wait get the error
LbCallFails(call) ==
    /\ call.attempts = MaxRetries
    /\ lbCalls' = lbCalls \ {call}
    /\ lbCache' = lbCache \ {EntryOf(call.key)}
    /\ lbCallers' = [i \in Callers |->
                        IF i \in WaitingFor(call.key)
                        THEN [lbCallers[i] EXCEPT !.phase = "failed"]
                        ELSE lbCallers[i]]
    /\ UNCHANGED notLbVars

\* time passes, by half the time to live: the cached results get older and
\* the ones that reach stdTTLSec leave the cache
LbTimePasses ==
    /\ \E e \in lbCache : e.state = "cached"
    /\ lbCache' = {e \in lbCache : e.state = "inflight"}
                    \cup {[e EXCEPT !.age = e.age + stdTTLSec \div 2] :
                            e \in {c \in lbCache : c.state = "cached" /\ c.age + stdTTLSec \div 2 < stdTTLSec}}
    /\ UNCHANGED <<lbCallers, lbCalls, notLbVars>>

InitLb ==
    /\ lbCache = {}
    /\ lbCallers \in [Callers -> [chain : Chains, phase : {"upstream"}, value : {0}]]
    /\ lbCalls = {}

IdleLb ==
    /\ lbCache = {}
    /\ lbCallers = [i \in Callers |-> [chain |-> "bsc", phase |-> "done", value |-> 0]]
    /\ lbCalls = {}

NextLb ==
    \/ AdvanceHead
    \/ \E i \in Callers : LbArrive(i)
    \/ \E call \in lbCalls : LbCallReturns(call)
    \/ \E call \in lbCalls : LbCallRetries(call)
    \/ \E call \in lbCalls : LbCallFails(call)
    \/ LbTimePasses

(***************************************************************************)
(* callLockProtectedRpc as batchRpcCalls$ calls it (batch-rpc-calls.ts):   *)
(* every operator awaits one gated call at a time (concatMap) on the       *)
(* endpoint of its ctx.rpcConfig.                                          *)
(***************************************************************************)
\* the operators built by batchRpcCalls$: the first one calls through the
\* linear provider, the others through the batch provider
Operators == {"op1", "op2", "op3"}
NoOperator == "none"

\* the time the gate is observed
MaxClock == 4

\* the endpoints and their rpcLimitations.minDelayBetweenCalls, in ticks
Endpoints == {"limited", "free"}
minDelayBetweenCalls(endpoint) == IF endpoint = "limited" THEN 2 ELSE NoLimit

Never == -1

\* mutant: the gate does not wait after a release
GateIsFree_NoDelay(endpoint) == gateHolder[endpoint] = NoOperator

\* the gate of an endpoint can be taken: nobody holds it and
\* minDelayBetweenCalls passed since it was released
GateIsFree(endpoint) ==
    /\ gateHolder[endpoint] = NoOperator
    /\ \/ gateReleased[endpoint] = Never
       \/ gateClock >= gateReleased[endpoint] + minDelayBetweenCalls(endpoint)

\* concatMap hands a batch to the operator, which calls callLockProtectedRpc
GateRequest(op) ==
    /\ gateOps[op].phase = "idle"
    /\ gateOps' = [gateOps EXCEPT ![op].phase = "queued"]
    /\ UNCHANGED <<gateClock, gateHolder, gateReleased, gateCalls, notGateVars>>

\* work() starts: at once on an endpoint without limit, under the gate on
\* the others
GateStart(op) ==
    /\ gateOps[op].phase = "queued"
    /\ LET endpoint == gateOps[op].endpoint
       IN IF minDelayBetweenCalls(endpoint) = NoLimit
          THEN UNCHANGED gateHolder
          ELSE /\ GateIsFree(endpoint)
               /\ gateHolder' = [gateHolder EXCEPT ![endpoint] = op]
    /\ gateOps' = [gateOps EXCEPT ![op].phase = "inflight", ![op].start = gateClock]
    /\ UNCHANGED <<gateClock, gateReleased, gateCalls, notGateVars>>

\* work() settles and the gate is released: the call gave its result, or
\* threw for good, or is tried again
GateEnd(op, outcome) ==
    /\ gateOps[op].phase = "inflight"
    /\ LET endpoint == gateOps[op].endpoint
       IN /\ IF minDelayBetweenCalls(endpoint) = NoLimit
             THEN UNCHANGED <<gateHolder, gateReleased>>
             ELSE /\ gateHolder' = [gateHolder EXCEPT ![endpoint] = NoOperator]
                  /\ gateReleased' = [gateReleased EXCEPT ![endpoint] = gateClock]
          /\ gateCalls' = [gateCalls EXCEPT
                              ![endpoint] = [start |-> gateOps[op].start, end |-> gateClock]]
    /\ gateOps' = [gateOps EXCEPT ![op].phase = IF outcome = "retry" THEN "queued" ELSE "idle",
                                  ![op].start = Never]
    /\ UNCHANGED <<gateClock, notGateVars>>

GateTick ==
    /\ gateClock < MaxClock
    /\ gateClock' = gateClock + 1
    /\ UNCHANGED <<gateHolder, gateReleased, gateOps, gateCalls, notGateVars>>

InitGate ==
    /\ gateClock = 0
    /\ gateHolder = [e \in Endpoints |-> NoOperator]
    /\ gateReleased = [e \in Endpoints |-> Never]
    /\ \E endpoints \in [Operators -> Endpoints] :
         gateOps = [op \in Operators |->
                        [endpoint |-> endpoints[op],
                         provider |-> IF op = "op1" THEN "linear" ELSE "batch",
                         phase |-> "idle", start |-> Never]]
    /\ gateCalls = [e \in Endpoints |-> [start |-> Never, end |-> Never]]

IdleGate ==
    /\ gateClock = 0
    /\ gateHolder = [e \in Endpoints |-> NoOperator]
    /\ gateReleased = [e \in Endpoints |-> Never]
    /\ gateOps = [op \in Operators |-> [endpoint |-> "free", provider |-> "linear",
                                        phase |-> "idle", start |-> Never]]
    /\ gateCalls = [e \in Endpoints |-> [start |-> Never, end |-> Never]]

NextGate ==
    \/ \E op \in Operators : GateRequest(op)
    \/ \E op \in Operators : GateStart(op)
    \/ \E op \in Operators, outcome \in {"result", "retry", "throw"} : GateEnd(op, outcome)
    \/ GateTick

(***************************************************************************)
(* processShareRateQuery$: the midpoint of the range, fetchProduct$,       *)
(* fetchBeefyPPFS$ with getPPFSCallParams, fetchBlockDatetime$ and         *)
(* upsertPrice$.  fetchBeefyPPFS$ batches its input as batchRpcCalls$      *)
(* does: the call parameters of a batch are built before the RPC call.     *)
(***************************************************************************)
\* the queries that enter processShareRateQuery$
NumQueries == 3
Queries == 1..NumQueries

\* the most queries fetchBeefyPPFS$ puts in one batch
MaxPpfsBatch == 2

ProductTypes == {"beefy:vault", "beefy:gov-vault", "beefy:boost"}
ProductsOfQueries == [type : ProductTypes, vault : {"A", "B"}]

isBeefyBoost(product) == product.type = "beefy:boost"
isBeefyGovVault(product) == product.type = "beefy:gov-vault"

\* mutant: a gov vault gets call parameters
getPPFSCallParams_GovVault(item) ==
    IF isBeefyBoost(item.product)
    THEN [error |-> "ProgrammerError", msg |-> "beefy boost do not have ppfs"]
    ELSE [error |-> "none", vaultAddress |-> item.product.vault,
          blockNumber |-> item.rangeMidpoint]

\* getPPFSCallParams
getPPFSCallParams(item) ==
    IF isBeefyBoost(item.product)
    THEN [error |-> "ProgrammerError", msg |-> "beefy boost do not have ppfs"]
    ELSE IF isBeefyGovVault(item.product)
    THEN [error |-> "ProgrammerError", msg |-> "beefy gov vaults do not have ppfs"]
    ELSE [error |-> "none", vaultAddress |-> item.product.vault,
          blockNumber |-> item.rangeMidpoint]

\* rangeMidpoint: Math.floor((item.range.from + item.range.to) / 2)
rangeMidpoint(range) == (range.from + range.to) \div 2

\* the midpoint is added and fetchProduct$ gives the product of the query,
\* which then waits in front of fetchBeefyPPFS$
PpfsFetchProduct(q) ==
    /\ ppfsThrown.query = 0
    /\ ppfsItems[q].stage = "query"
    /\ ppfsItems' = [ppfsItems EXCEPT ![q].stage = "buffered"]
    /\ ppfsBuffer' = Append(ppfsBuffer, q)
    /\ UNCHANGED <<ppfsCall, ppfsCalled, ppfsThrown, notPpfsVars>>

\* objs.map(getQuery): the first query of the batch whose parameters throw
RECURSIVE firstThrowing(_)
firstThrowing(objs) ==
    IF objs = <<>> THEN 0
    ELSE IF getPPFSCallParams(ppfsItems[Head(objs)]).error # "none" THEN Head(objs)
    ELSE firstThrowing(Tail(objs))

\* fetchBeefyPPFS$ takes a batch: the call parameters of its queries are
\* built in order; an error thrown there ends the pipeline before any call,
\* otherwise getPricePerFullShare is called for every query of the batch
PpfsTakeBatch(n) ==
    /\ ppfsThrown.query = 0
    /\ ppfsCall = <<>>
    /\ n \in 1..Min(Len(ppfsBuffer), MaxPpfsBatch)
    /\ LET objs == SubSeq(ppfsBuffer, 1, n)
           thrower == firstThrowing(objs)
       IN /\ ppfsBuffer' = SubSeq(ppfsBuffer, n + 1, Len(ppfsBuffer))
          /\ IF thrower # 0
             THEN /\ ppfsThrown' = [query |-> thrower,
                                    error |-> getPPFSCallParams(ppfsItems[thrower]).error]
                  /\ UNCHANGED <<ppfsCall, ppfsCalled, ppfsItems>>
             ELSE /\ ppfsCall' = objs
                  /\ ppfsCalled' = ppfsCalled \cup
                        {[query |-> objs[k], params |-> getPPFSCallParams(ppfsItems[objs[k]])] :
                            k \in 1..Len(objs)}
                  /\ ppfsItems' = [q \in Queries |->
                                      IF q \in SeqToSet(objs)
                                      THEN [ppfsItems[q] EXCEPT !.stage = "called"]
                                      ELSE ppfsItems[q]]
                  /\ UNCHANGED ppfsThrown
    /\ UNCHANGED notPpfsVars

\* the call returns: the date of the block is added, the price is upserted
\* and the queries come out with success: true
PpfsCallReturns ==
    /\ ppfsCall # <<>>
    /\ ppfsItems' = [q \in Queries |->
                        IF q \in SeqToSet(ppfsCall)
                        THEN [ppfsItems[q] EXCEPT !.stage = "success"]
                        ELSE ppfsItems[q]]
    /\ ppfsCall' = <<>>
    /\ UNCHANGED <<ppfsBuffer, ppfsCalled, ppfsThrown, notPpfsVars>>

\* the call fails for good: the queries of the batch go to emitErrors
PpfsCallFails ==
    /\ ppfsCall # <<>>
    /\ ppfsItems' = [q \in Queries |->
                        IF q \in SeqToSet(ppfsCall)
                        THEN [ppfsItems[q] EXCEPT !.stage = "error"]
                        ELSE ppfsItems[q]]
    /\ ppfsCall' = <<>>
    /\ UNCHANGED <<ppfsBuffer, ppfsCalled, ppfsThrown, notPpfsVars>>

InitPpfs ==
    /\ \E products \in [Queries -> ProductsOfQueries], from \in 0..1 :
         ppfsItems = [q \in Queries |->
                        [product |-> products[q],
                         rangeMidpoint |-> rangeMidpoint([from |-> from + q, to |-> from + q + 3]),
                         stage |-> "query"]]
    /\ ppfsBuffer = <<>>
    /\ ppfsCall = <<>>
    /\ ppfsCalled = {}
    /\ ppfsThrown = [query |-> 0, error |-> "none"]

IdlePpfs ==
    /\ ppfsItems = [q \in Queries |->
                        [product |-> [type |-> "beefy:vault", vault |-> "A"],
                         rangeMidpoint |-> 0, stage |-> "success"]]
    /\ ppfsBuffer = <<>>
    /\ ppfsCall = <<>>
    /\ ppfsCalled = {}
    /\ ppfsThrown = [query |-> 0, error |-> "none"]

NextPpfs ==
    \/ \E q \in Queries : PpfsFetchProduct(q)
    \/ \E n \in 1..MaxPpfsBatch : PpfsTakeBatch(n)
    \/ PpfsCallReturns
    \/ PpfsCallFails

(***************************************************************************)
(* addCoveringBlockRangesQuery: the step of the extrapolation, the block   *)
(* list extended up to the latest block, and the ranges between its        *)
(* entries.  The mean and what is computed with it are fractions, kept as  *)
(* [num, den]; a block number b of the list is [b * den, den].             *)
(***************************************************************************)
\* the block numbers of the block lists and the length of the lists
MaxBlock == 6
MaxBlockListLen == 3

\* const lastTimeStepsCount = 40
lastTimeStepsCount == 40

NoCovering == [computed |-> FALSE]

\* blockList.slice(-n)
sliceLast(s, n) == SubSeq(s, Max(1, Len(s) - n + 1), Len(s))

RECURSIVE SumSeq(_)
SumSeq(s) == IF s = <<>> THEN 0 ELSE Head(s) + SumSeq(Tail(s))

\* lodash mean: the sum over the count (NaN, here 0/0, for an empty list)
mean(s) == [num |-> SumSeq(s), den |-> Len(s)]

\* averageBlockCountPerTimeStep: the mean of the interpolated block numbers
\* of the last lastTimeStepsCount entries
averageBlockCountPerTimeStep(blockList) == mean(sliceLast(blockList, lastTimeStepsCount))

\* the entries of the block list that a covered range of the parent holds
coveredBlockList(blockList, coveredRanges) ==
    LET isCovered(b) == \E i \in 1..Len(coveredRanges) : isInRange(coveredRanges[i], b)
    IN SelectSeq(blockList, isCovered)

\* Math.floor((item.latestBlockNumber - lastDbBlock) / blockStep); a division by
\* NaN or by 0 gives a length Array.from takes as 0, as a negative one
missingBlocks(latest, lastDbBlock, blockStep) ==
    IF blockStep.num <= 0 \/ blockStep.den <= 0 THEN 0
    ELSE Max(0, ((latest - lastDbBlock) * blockStep.den) \div blockStep.num)

\* the block list extended with the extrapolated blocks, over the
\* denominator of blockStep
extendedBlockList(blockList, latest, blockStep) ==
    LET sorted == sortBy(blockList)
        lastDbBlock == sorted[Len(sorted)]
        den == IF blockStep.den <= 0 THEN 1 ELSE blockStep.den
        n == missingBlocks(latest, lastDbBlock, blockStep)
    IN IF blockList = <<>> THEN <<>>
       ELSE [i \in 1..Len(sorted) |-> [num |-> sorted[i] * den, den |-> den]]
            \o [i \in 1..n |-> [num |-> lastDbBlock * den + i * blockStep.num, den |-> den]]

\* blockRanges: from an entry to the next entry minus 1
blockRangesOf(list) ==
    [i \in 1..(Len(list) - 1) |->
        [from |-> list[i], to |-> [num |-> list[i + 1].num - list[i + 1].den, den |-> list[i + 1].den]]]

\* the operator up to the block ranges it hands to
\* restrictRangesWithImportState
AddCoveringBlockRanges ==
    /\ cbOut = NoCovering
    /\ LET blockStep == averageBlockCountPerTimeStep(cbBlockList)
           blockList == coveredBlockList(cbBlockList, cbParentCovered)
           extended == extendedBlockList(blockList, cbLatest, blockStep)
       IN cbOut' = [computed |-> TRUE,
                    blockStep |-> blockStep,
                    blockList |-> extended,
                    blockRanges |-> blockRangesOf(extended)]
    /\ UNCHANGED <<cbBlockList, cbParentCovered, cbLatest, notCbVars>>

\* the next item: another block list, parent and latest block
NextCoveringItem ==
    /\ cbOut # NoCovering
    /\ cbOut' = NoCovering
    /\ cbLatest' \in {cbLatest, cbLatest + 1}
    /\ cbLatest' <= MaxBlock + 4
    /\ UNCHANGED <<cbBlockList, cbParentCovered, notCbVars>>

\* the block lists: increasing block numbers
BlockLists ==
    {s \in UNION {[1..n -> 1..MaxBlock] : n \in 0..MaxBlockListLen} :
        \A i \in 1..(Len(s) - 1) : s[i] < s[i + 1]}

InitCb ==
    /\ cbBlockList \in BlockLists
    /\ cbParentCovered \in {<<Range(1, MaxBlock)>>, <<Range(1, 3)>>}
    /\ cbLatest = MaxBlock + 2
    /\ cbOut = NoCovering

IdleCb ==
    /\ cbBlockList = <<>>
    /\ cbParentCovered = <<>>
    /\ cbLatest = 0
    /\ cbOut = NoCovering

NextCb ==
    \/ AddCoveringBlockRanges
    \/ NextCoveringItem

(***************************************************************************)
(* fetchErc20Transfers$: batchQueryGroup$ groups the buffered items by     *)
(* getBatchKey and builds one query per group with toQueryObj.             *)
(***************************************************************************)
\* the most items in a buffer
MaxTransferItems == 3

\* getQueryParams of the items
TransferParams ==
    {p \in [address : Tokens, trackAddress : {NoTrack, "O1"},
            fromBlock : 0..MaxLogBlock, toBlock : 0..MaxLogBlock] : p.fromBlock <= p.toBlock}

\* getBatchKey: the address and the tracked address, in lower case (the
\* addresses here are in lower case already)
getBatchKey(p) == <<p.address, p.trackAddress>>

\* lodash min over a non-empty list of numbers
RECURSIVE min(_)
min(s) == IF Len(s) = 1 THEN s[1] ELSE Min(s[1], min(Tail(s)))

\* the items of a batch key, in the order of the buffer
RECURSIVE objsOfKey(_, _)
objsOfKey(items, key) ==
    IF items = <<>> THEN <<>>
    ELSE IF getBatchKey(Head(items)) = key THEN <<Head(items)>> \o objsOfKey(Tail(items), key)
    ELSE objsOfKey(Tail(items), key)

\* toQueryObj: the parameters of the first item, with the minimum of the
\* fromBlock and the minimum of the toBlock of the items
toQueryObj(params) ==
    [address |-> params[1].address,
     trackAddress |-> params[1].trackAddress,
     fromBlock |-> min([i \in 1..Len(params) |-> params[i].fromBlock]),
     toBlock |-> min([i \in 1..Len(params) |-> params[i].toBlock])]

\* batchQueryGroup$ builds the query of every group of the buffer
BuildTransferQueries ==
    /\ ~tqBuilt
    /\ tqQueries' = [key \in {getBatchKey(tqItems[i]) : i \in 1..Len(tqItems)} |->
                        toQueryObj(objsOfKey(tqItems, key))]
    /\ tqBuilt' = TRUE
    /\ UNCHANGED <<tqItems, notTqVars>>

\* the next buffer of items
NextTransferBuffer ==
    /\ tqBuilt
    /\ Len(tqItems) < MaxTransferItems
    /\ \E p \in TransferParams : tqItems' = Append(tqItems, p)
    /\ tqQueries' = <<>>
    /\ tqBuilt' = FALSE
    /\ UNCHANGED notTqVars

InitTq ==
    /\ \E p \in TransferParams : tqItems = <<p>>
    /\ tqQueries = <<>>
    /\ tqBuilt = FALSE

IdleTq ==
    /\ tqItems = <<>>
    /\ tqQueries = <<>>
    /\ tqBuilt = TRUE

NextTq ==
    \/ BuildTransferQueries
    \/ NextTransferBuffer

(***************************************************************************)
(* updateBlockRangesImportStatus$: mergeImportStatus merges the block      *)
(* ranges of a buffered group of items into the stored status.             *)
(***************************************************************************)
\* the highest block of an item range
MaxStatusBlock == 2
\* at most this many items in one buffered group
MaxStatusBatch == 2

StatusRanges == {r \in [from : 0..MaxStatusBlock, to : 0..MaxStatusBlock] : r.from <= r.to}

\* the items of a group: they carry the latest block number of their run
StatusBatches ==
    UNION {{[i \in 1..n |-> [blockRange |-> rs[i], success |-> ok[i], latestBlockNumber |-> latest]] :
               rs \in [1..n -> StatusRanges], ok \in [1..n -> BOOLEAN],
               latest \in {MaxStatusBlock, MaxStatusBlock + 1}} : n \in 1..MaxStatusBatch}

\* the ranges to retry after the items: the range of a successful item is
\* excluded from them, the range of a failed item is pushed
RECURSIVE retryAfter(_, _)
retryAfter(toRetry, items) ==
    IF items = <<>> THEN toRetry
    ELSE retryAfter(IF Head(items).success
                    THEN rangeExcludeMany(toRetry, Head(items).blockRange)
                    ELSE Append(toRetry, Head(items).blockRange),
                    Tail(items))

\* mergeImportStatus of updateBlockRangesImportStatus$; the block numbers are
\* not negative, so that x || 0 is x
mergeImportStatus(items, importStatus) ==
    LET blockRanges == [i \in 1..Len(items) |-> items[i].blockRange]
        mergedRange == rangeMerge(<<importStatus.coveredBlockRange>> \o blockRanges)
        latests == [i \in 1..Len(items) |-> items[i].latestBlockNumber]
    IN [importStatus EXCEPT
          !.coveredBlockRange = mergedRange[1],
          !.blockRangesToRetry = rangeMerge(retryAfter(importStatus.blockRangesToRetry, items)),
          !.chainLatestBlockNumber = Max(rangeValueMax(latests), importStatus.chainLatestBlockNumber)]

\* updateImportStatus on the next buffered group of the product
UpdateBlockRangesImportStatus ==
    /\ \E items \in StatusBatches :
         /\ lsStatus' = mergeImportStatus(items, lsStatus)
         /\ lsItems' = items
    /\ UNCHANGED notLsVars

\* getInitialImportData of addMissingBlockRangesImportStatus$
InitLs ==
    /\ \E created \in 0..MaxCreatedAt :
         lsStatus = [chainLatestBlockNumber |-> created,
                     contractCreatedAtBlock |-> created,
                     coveredBlockRange |-> Range(created, created),
                     blockRangesToRetry |-> <<>>]
    /\ lsItems = <<>>

IdleLs ==
    /\ lsStatus = [chainLatestBlockNumber |-> 0,
                   contractCreatedAtBlock |-> 0,
                   coveredBlockRange |-> Range(0, 0),
                   blockRangesToRetry |-> <<>>]
    /\ lsItems = <<>>

NextLs ==
    UpdateBlockRangesImportStatus

vars == <<importVars, rpcVars, txVars, bpVars, etVars, lqVars, runVars, lbVars, gateVars, ppfsVars, cbVars, tqVars, lsVars>>

\* a tick is due: the results of the previous tick are stored and the planner
\* has not run on the stored state for the head of the chain
TickIsDue == CanPlan /\ (plan.kind = "none" \/ plan.latest # head)

\* a group of results is waiting for its update transaction
UpdateIsDue == batch # <<>>

\* the scheduler repeats the ticks, bufferTime emits the results it holds and
\* the update transaction of a group ends. TickHistorical and PlanHistorical2
\* are enabled and change the state whenever a tick is due, and
\* UpdateImportState whenever an update is due; both conditions are false
\* after the step, so weak fairness of these actions is that neither
\* condition holds forever.
FairCatchUp ==
    /\ WF_vars(FormBatch)
    /\ []<>(~TickIsDue)
    /\ []<>(~UpdateIsDue)

\* the callback of setTimeout runs after its delay, and fetchJson answers or
\* fails (its connection has a timeout)
FairBatchProvider ==
    /\ WF_vars(BpFlush)
    /\ WF_vars(BpArrayAnswer \/ BpBatchFailure)

InitImportOnly == InitImport /\ IdleRpc /\ IdleTx /\ IdleBp /\ IdleEt /\ IdleLq /\ IdleRuns /\ IdleLb /\ IdleGate /\ IdlePpfs /\ IdleCb /\ IdleTq /\ IdleLs

InitRpcOnly == InitRpc /\ IdleImport /\ IdleTx /\ IdleBp /\ IdleEt /\ IdleLq /\ IdleRuns /\ IdleLb /\ IdleGate /\ IdlePpfs /\ IdleCb /\ IdleTq /\ IdleLs

InitUpdateTxOnly == InitUpdateTx /\ IdleImport /\ IdleRpc /\ IdleBp /\ IdleEt /\ IdleLq /\ IdleRuns /\ IdleLb /\ IdleGate /\ IdlePpfs /\ IdleCb /\ IdleTq /\ IdleLs

InitAddMissingOnly == InitAddMissing /\ IdleImport /\ IdleRpc /\ IdleBp /\ IdleEt /\ IdleLq /\ IdleRuns /\ IdleLb /\ IdleGate /\ IdlePpfs /\ IdleCb /\ IdleTq /\ IdleLs

InitBpOnly == InitBp /\ IdleImport /\ IdleRpc /\ IdleTx /\ IdleEt /\ IdleLq /\ IdleRuns /\ IdleLb /\ IdleGate /\ IdlePpfs /\ IdleCb /\ IdleTq /\ IdleLs

InitPipelineOnly == InitPipeline /\ IdleTx /\ IdleBp /\ IdleEt /\ IdleLq /\ IdleRuns /\ IdleLb /\ IdleGate /\ IdlePpfs /\ IdleCb /\ IdleTq /\ IdleLs

InitEtOnly == InitEt /\ IdleImport /\ IdleRpc /\ IdleTx /\ IdleBp /\ IdleLq /\ IdleRuns /\ IdleLb /\ IdleGate /\ IdlePpfs /\ IdleCb /\ IdleTq /\ IdleLs

InitLqOnly == InitLq /\ IdleRpc /\ IdleTx /\ IdleBp /\ IdleEt /\ IdleRuns /\ IdleLb /\ IdleGate /\ IdlePpfs /\ IdleCb /\ IdleTq /\ IdleLs

InitScenariosOnly == InitScenarios /\ IdleRpc /\ IdleTx /\ IdleBp /\ IdleEt /\ IdleLq /\ IdleRuns /\ IdleLb /\ IdleGate /\ IdlePpfs /\ IdleCb /\ IdleTq /\ IdleLs

InitRunsOnly == InitRuns /\ IdleRpc /\ IdleTx /\ IdleBp /\ IdleEt /\ IdleLq /\ IdleLb /\ IdleGate /\ IdlePpfs /\ IdleCb /\ IdleTq /\ IdleLs

InitCatchUpOnly == InitCatchUp /\ IdleRpc /\ IdleTx /\ IdleBp /\ IdleEt /\ IdleLq /\ IdleRuns /\ IdleLb /\ IdleGate /\ IdlePpfs /\ IdleCb /\ IdleTq /\ IdleLs

InitLbOnly == InitLb /\ IdleImport /\ IdleRpc /\ IdleTx /\ IdleBp /\ IdleEt /\ IdleLq /\ IdleRuns /\ IdleGate /\ IdlePpfs /\ IdleCb /\ IdleTq /\ IdleLs

InitGateOnly == InitGate /\ IdleImport /\ IdleRpc /\ IdleTx /\ IdleBp /\ IdleEt /\ IdleLq /\ IdleRuns /\ IdleLb /\ IdlePpfs /\ IdleCb /\ IdleTq /\ IdleLs

InitPpfsOnly == InitPpfs /\ IdleImport /\ IdleRpc /\ IdleTx /\ IdleBp /\ IdleEt /\ IdleLq /\ IdleRuns /\ IdleLb /\ IdleGate /\ IdleCb /\ IdleTq /\ IdleLs

InitCbOnly == InitCb /\ IdleImport /\ IdleRpc /\ IdleTx /\ IdleBp /\ IdleEt /\ IdleLq /\ IdleRuns /\ IdleLb /\ IdleGate /\ IdlePpfs /\ IdleTq /\ IdleLs

InitTqOnly == InitTq /\ IdleImport /\ IdleRpc /\ IdleTx /\ IdleBp /\ IdleEt /\ IdleLq /\ IdleRuns /\ IdleLb /\ IdleGate /\ IdlePpfs /\ IdleCb /\ IdleLs

InitLsOnly == InitLs /\ IdleImport /\ IdleRpc /\ IdleTx /\ IdleBp /\ IdleEt /\ IdleLq /\ IdleRuns /\ IdleLb /\ IdleGate /\ IdlePpfs /\ IdleCb /\ IdleTq

SpecImport == InitImportOnly /\ [][NextImport]_vars

SpecBatchRpc == InitRpcOnly /\ [][NextRpc]_vars

SpecUpdateTx == InitUpdateTxOnly /\ [][NextUpdateTx]_vars

SpecAddMissing == InitAddMissingOnly /\ [][NextAddMissing]_vars

SpecBatchProvider == InitBpOnly /\ [][NextBp]_vars

SpecPipeline == InitPipelineOnly /\ [][NextPipeline]_vars

SpecTransfers == InitEtOnly /\ [][NextEt]_vars

SpecLatestQuery == InitLqOnly /\ [][NextLq]_vars

SpecScenarios == InitScenariosOnly /\ [][NextScenarios]_vars

SpecPlannerRuns == InitRunsOnly /\ [][NextRuns]_vars

SpecLatestBlockCache == InitLbOnly /\ [][NextLb]_vars

SpecRpcGate == InitGateOnly /\ [][NextGate]_vars

SpecShareRate == InitPpfsOnly /\ [][NextPpfs]_vars

SpecCoveringRanges == InitCbOnly /\ [][NextCb]_vars

SpecTransferQueries == InitTqOnly /\ [][NextTq]_vars

SpecLegacyStatus == InitLsOnly /\ [][NextLs]_vars

SpecCatchUp == InitCatchUpOnly /\ [][NextCatchUp]_vars /\ FairCatchUp

SpecBatchProviderLive == InitBpOnly /\ [][NextBp]_vars /\ FairBatchProvider

(***************************************************************************)
(* Properties of the import-state update.                                  *)
(***************************************************************************)
covered == importState.ranges.coveredRanges
toRetry == importState.ranges.toRetry

\* a list of ranges is sorted, and its ranges neither overlap nor touch
IsMergedSorted(rs) ==
    /\ \A i \in 1..Len(rs) : rs[i].from <= rs[i].to
    /\ \A i \in 1..(Len(rs) - 1) : rs[i].to + 1 < rs[i + 1].from

BlocksOfRange(r) == r.from .. r.to

\* the update transaction takes a step
Updating == batch # <<>> /\ batch' = <<>>

SuccessBlocks(items) == UNION {BlocksOfRange(items[i].range) : i \in {j \in 1..Len(items) : items[j].success}}
ErrorBlocks(items) == UNION {BlocksOfRange(items[i].range) : i \in {j \in 1..Len(items) : ~items[j].success}}

\* C3, as stated: coveredRanges is merged and sorted and shares no block with
\* toRetry.
C3_CoveredDisjointFromRetry ==
    /\ IsMergedSorted(covered)
    /\ BlocksOf(covered) \cap BlocksOf(toRetry) = {}

\* C3, amended: coveredRanges and toRetry are merged and sorted, and every
\* block of toRetry is a block of coveredRanges.
C3_CoveredMergedRetryInside ==
    /\ IsMergedSorted(covered)
    /\ IsMergedSorted(toRetry)
    /\ BlocksOf(toRetry) \subseteq BlocksOf(covered)

\* updates have left several covered ranges and a range to retry
C3_Witness ==
    /\ Len(covered) >= 2
    /\ toRetry # <<>>
    /\ BlocksOf(toRetry) # BlocksOf(covered)

\* C4: an update of the import state with the items of a batch yields
\* coveredRanges' = merge(coveredRanges + ranges of all items) and
\* toRetry' = merge((toRetry + ranges of failed items) - ranges of successful
\* items), stated on the blocks the lists contain.
C4_UpdateFormula ==
    [][Updating =>
        /\ IsMergedSorted(importState'.ranges.coveredRanges)
        /\ BlocksOf(importState'.ranges.coveredRanges)
             = BlocksOf(covered) \cup BlocksOf(RangesOf(batch))
        /\ IsMergedSorted(importState'.ranges.toRetry)
        /\ BlocksOf(importState'.ranges.toRetry)
             = (BlocksOf(toRetry) \cup ErrorBlocks(batch)) \ SuccessBlocks(batch)
      ]_vars

\* an update has removed a retried range from toRetry and kept another
C4_Witness ==
    /\ batch = <<>>
    /\ plan = NoPlan
    /\ Len(toRetry) >= 1
    /\ Len(covered) >= 1
    /\ \E b \in BlocksOf(covered) : b \notin BlocksOf(toRetry) /\ b + 1 \in BlocksOf(toRetry)

\* C5, as stated: the range of a successful item goes to coveredRanges and not
\* to toRetry, the range of a failed item goes to toRetry and not to
\* coveredRanges.
C5_FlagSelectsOneList ==
    [][Updating =>
        \A i \in 1..Len(batch) :
            LET blocks == BlocksOfRange(batch[i].range)
            IN IF batch[i].success
               THEN /\ blocks \subseteq BlocksOf(importState'.ranges.coveredRanges)
                    /\ blocks \cap BlocksOf(importState'.ranges.toRetry) = {}
               ELSE /\ blocks \subseteq BlocksOf(importState'.ranges.toRetry)
                    /\ (blocks \ BlocksOf(covered)) \cap BlocksOf(importState'.ranges.coveredRanges) = {}
      ]_vars

\* C5, amended: the range of every item goes to coveredRanges; the range of a
\* successful item leaves toRetry, the range of a failed item goes to toRetry
\* but for the blocks a successful item of the same batch covers.
C5_FlagSelectsRetry ==
    [][Updating =>
        \A i \in 1..Len(batch) :
            LET blocks == BlocksOfRange(batch[i].range)
            IN /\ blocks \subseteq BlocksOf(importState'.ranges.coveredRanges)
               /\ batch[i].success => blocks \cap BlocksOf(importState'.ranges.toRetry) = {}
               /\ ~batch[i].success =>
                    (blocks \ SuccessBlocks(batch)) \subseteq BlocksOf(importState'.ranges.toRetry)
      ]_vars

\* an update has recorded a failed range: it is covered and to retry
C5_Witness ==
    /\ batch = <<>>
    /\ plan = NoPlan
    /\ toRetry # <<>>
    /\ BlocksOf(toRetry) \subseteq BlocksOf(covered)

(***************************************************************************)
(* Properties of the planner.  While plan # NoPlan the import state is the *)
(* one the planner has read.                                               *)
(***************************************************************************)
Planned == plan.kind # "none"

\* the planner output, were it not limited in length
UnlimitedCount ==
    LET maxLength == IF plan.kind = "regular" THEN rangeMaxLength ELSE maxBlocksPerQuery
    IN plan.nAvailable + Len(rangeSplitManyToMaxLength(toRetry, maxLength))

\* a range of the output that is a (part of a) range to retry
IsRetryRange(r) == BlocksOfRange(r) \subseteq BlocksOf(toRetry)

\* C6: no range emitted by the planner contains a block strictly greater
\* than head - 5.
C6_NoBlockAboveHeadMinusMargin ==
    Planned => \A i \in 1..Len(plan.ranges) : plan.ranges[i].to <= plan.latest - 5

\* C7: the planner returns at most MAX_RANGES_PER_PRODUCT_TO_GENERATE ranges,
\* also after the forced-block-number exclusion.
C7_AtMostMaxRanges ==
    Planned => Len(plan.ranges) <= MAX_RANGES_PER_PRODUCT_TO_GENERATE

\* a planner run with a forced block number had more ranges than the limit
C7_Witness ==
    /\ plan.kind = "historical"
    /\ plan.force # NoForce
    /\ UnlimitedCount > MAX_RANGES_PER_PRODUCT_TO_GENERATE
    /\ Len(plan.ranges) = MAX_RANGES_PER_PRODUCT_TO_GENERATE

\* C8: in the planner output the retry ranges come after all primary ranges
\* and are ordered oldest first (ascending by from).
C8_RetryLastOldestFirst ==
    Planned =>
        \A i, j \in 1..Len(plan.ranges) :
            (i < j /\ IsRetryRange(plan.ranges[i])) =>
                /\ IsRetryRange(plan.ranges[j])
                /\ plan.ranges[i].from <= plan.ranges[j].from

\* C9, as stated: every range of toRetry is in the next planner output,
\* behind the primary ranges.
C9_RetryAlwaysRescheduled ==
    Planned =>
        \A b \in BlocksOf(toRetry) :
            \E i \in (plan.nPrimary + 1)..Len(plan.ranges) : isInRange(plan.ranges[i], b)

\* C9, amended: every range of toRetry is in the next planner output, behind
\* the primary ranges, when the primary ranges and the split retry ranges
\* together are at most MAX_RANGES_PER_PRODUCT_TO_GENERATE.
C9_RetryRescheduledWithinLimit ==
    (Planned /\ UnlimitedCount <= MAX_RANGES_PER_PRODUCT_TO_GENERATE) =>
        \A b \in BlocksOf(toRetry) :
            \E i \in (plan.nPrimary + 1)..Len(plan.ranges) : isInRange(plan.ranges[i], b)

\* a planner run has emitted a primary range and, behind it, a range to retry
C9_Witness ==
    /\ Planned
    /\ toRetry # <<>>
    /\ plan.nPrimary >= 1
    /\ Len(plan.ranges) > plan.nPrimary
    /\ UnlimitedCount <= MAX_RANGES_PER_PRODUCT_TO_GENERATE

\* C10: no primary range of the historical planner overlaps coveredRanges.
C10_PrimaryNotCovered ==
    plan.kind \in {"historical", "historical2"} =>
        \A i \in 1..Len(plan.ranges) :
            i <= plan.nPrimary => BlocksOfRange(plan.ranges[i]) \cap BlocksOf(covered) = {}

\* the historical planner has emitted primary ranges around covered ranges
C10_Witness ==
    /\ plan.kind \in {"historical", "historical2"}
    /\ plan.nPrimary >= 1
    /\ covered # <<>>
    /\ plan.ranges[1].to < covered[1].from

(***************************************************************************)
(* Properties of batchRpcCalls$.                                           *)
(***************************************************************************)
CountIn(s, x) == Cardinality({i \in 1..Len(s) : s[i] = x})

\* the item went through a group whose processing is over
Handled(i) ==
    /\ i < rpcNext
    /\ i \notin SeqToSet(rpcBuffer)
    /\ i \notin SeqToSet(rpcCall.objs)
    /\ \A g \in 1..Len(rpcGroups) : i \notin SeqToSet(rpcGroups[g])

C2_FailedGroupOnlyErrors ==
    /\ \A g \in rpcFailed : \A k \in 1..Len(g) :
         CountIn(rpcErrors, g[k]) = 1 /\ CountIn(rpcOut, g[k]) = 0
    /\ rpcFailed # {} => rpcAlive

\* a group of two items failed and a group after it gave its output
C2_Witness ==
    \E g \in rpcFailed :
        /\ Len(g) = 2
        /\ \E j \in 1..NumItems : g[2] < j /\ CountIn(rpcOut, j) = 1

(***************************************************************************)
(* Properties of the operators on the import_state table.                  *)
(***************************************************************************)
\* the transaction committed
Committed(t) == txs[t].phase = "done" /\ txs[t].error = "none"

\* the transaction waits for a row lock another transaction holds
WaitsForLock(t) ==
    /\ txs[t].phase = "running"
    /\ NextToLock(t) # 0
    /\ ~rowIsFree(t, NextToLock(t))

\* C11: updates of the same import key are serialized by the row lock: a
\* row is locked by one transaction at a time, and the stored ranges and
\* latest block number reflect the items of every committed transaction
\* (no lost update).
C11_NoLostUpdate ==
    /\ \A t, u \in Txs : t # u => txs[t].held \cap txs[u].held = {}
    /\ \A t \in Txs : Committed(t) =>
          \A i \in 1..Len(txs[t].items) :
             LET it == txs[t].items[i]
             IN /\ BlocksOfRange(it.range) \subseteq BlocksOf(dbRows[it.key].ranges.coveredRanges)
                /\ dbRows[it.key].chainLatestBlockNumber >= it.latest

\* a transaction committed on a key, a second one holds the lock of this key
\* and read the ranges the first wrote, a lock on the other key is not held
C11_Witness ==
    \E t, u \in Txs :
       /\ t # u
       /\ Committed(t)
       /\ txs[t].items[1].key = 1
       /\ txs[u].phase = "running"
       /\ txs[u].items[1].key = 1
       /\ txs[u].held = {1}
       /\ BlocksOfRange(txs[t].items[1].range) \subseteq BlocksOf(txs[u].read[1].ranges.coveredRanges)

\* C12: concurrent update transactions with overlapping key sets never
\* deadlock: while transactions run, one of them can take its next lock or
\* commit.
C12_NoDeadlock ==
    (\E t \in Txs : txs[t].phase = "running") =>
        (\E t \in Txs : txs[t].phase = "running" /\ ~WaitsForLock(t))

\* two transactions on the same two keys, given in opposite orders; one
\* holds the first row and the other waits for it
C12_Witness ==
    \E t, u \in Txs :
       /\ importKeys(txs[t].items) = <<1, 2>>
       /\ importKeys(txs[u].items) = <<2, 1>>
       /\ txs[t].held = {1}
       /\ WaitsForLock(u)

\* an upsert of addMissingImportState$ takes a step on key k
Upserting(k) ==
    \E p \in 1..NumFetchers :
       /\ fetchers[p].phase = "missing"
       /\ fetchers[p].key = k
       /\ fetchers'[p].phase = "present"

\* C13: only the locked update changes the ranges of an existing import
\* state: the upsert of addMissingImportState$ leaves the coveredRanges and
\* toRetry of a row that exists as they are.
C13_UpsertKeepsRanges ==
    [][\A k \in DOMAIN dbRows : Upserting(k) => dbRows'[k].ranges = dbRows[k].ranges]_vars

\* an execution of work() of transaction t failed
Failing(t) == txs'[t].attempts = txs[t].attempts + 1

\* C14: a transaction failing with ConnectionTimeoutError is retried up to
\* numOfAttempts executions in total; when all fail, emitErrors is called
\* for every item of the batch, no item is emitted and the table is
\* unchanged; an error of any other type is not retried.
C14_TimeoutRetriedThenErrors ==
    [][\A t \in Txs : Failing(t) =>
          /\ dbRows' = dbRows
          /\ txOut' = txOut
          /\ txs'[t].attempts <= numOfAttempts
          /\ txs'[t].phase = "running" <=>
                (txs'[t].error = "ConnectionTimeoutError" /\ txs'[t].attempts < numOfAttempts)
          /\ (txs'[t].phase = "done" /\ txs'[t].error = "ConnectionTimeoutError") =>
                /\ txs'[t].attempts = numOfAttempts
                /\ txErrors' = txErrors \o ItemIds(t)
                /\ txAlive' = txAlive]_vars

\* a transaction of two items gave up after numOfAttempts timeouts, its
\* items were emitted as errors, and the other transaction committed
C14_Witness ==
    \E t, u \in Txs :
       /\ txs[t].phase = "done"
       /\ txs[t].error = "ConnectionTimeoutError"
       /\ txs[t].attempts = numOfAttempts
       /\ Len(txs[t].items) = 2
       /\ {<<t, 1>>, <<t, 2>>} \subseteq SeqToSet(txErrors)
       /\ Committed(u)
       /\ \A i \in 1..Len(txs[t].items) : <<t, i>> \notin SeqToSet(txOut)

(***************************************************************************)
(* Properties of the patched batch provider.                               *)
(***************************************************************************)
\* C15: each element of a batch response is delivered to exactly the caller
\* that enqueued the corresponding request, and a batch-level error rejects
\* every caller pending in that batch.
C15_ResponseRoutedToItsCaller ==
    /\ \A id \in DOMAIN bpSettled :
          bpSettled[id].of # 0 => bpSettled[id].of = id
    /\ \A a \in bpAnswered :
          a.answer \in BatchFailures =>
             \A id \in SeqToSet(a.requests) : bpSettled[id].state = "rejected"

\* C16: when the transport returns a payload that is not an array for a
\* batch, every caller of that batch is rejected with an error and none is
\* resolved.
C16_NonArrayRejectsAll ==
    \A a \in bpAnswered :
       a.answer \in {"error-object", "not-an-array"} =>
          \A id \in SeqToSet(a.requests) : bpSettled[id] = [state |-> "rejected", of |-> 0]

\* a batch of two requests was answered with an error object, after a batch
\* answered with an array resolved its caller
C16_Witness ==
    \E a, b \in bpAnswered :
       /\ a.answer = "error-object"
       /\ Len(a.requests) = 2
       /\ \A id \in SeqToSet(a.requests) : bpSettled[id].state = "rejected"
       /\ b.answer = "array"
       /\ \E id \in SeqToSet(b.requests) : bpSettled[id].state = "resolved"

(***************************************************************************)
(* Properties of the batch configuration and of the groups.                *)
(***************************************************************************)
\* the methods batchRpcCalls$ uses: those with calls per input object
UsedMethods == {i \in 1..Len(rpcConfig.methods) : rpcConfig.methods[i].count > 0}

SomeUsedLimitIsNull == \E i \in UsedMethods : rpcConfig.methods[i].limit = NoLimit

\* min(maxInputTake, floor(limit[m] / count[m]) over the used methods m)
MinOverUsedMethods ==
    LET caps == {rpcConfig.maxInputTake} \cup
                {rpcConfig.methods[i].limit \div rpcConfig.methods[i].count : i \in UsedMethods}
    IN CHOOSE c \in caps : \A d \in caps : c <= d

\* C17: when no used method has a null limit, the capacity is the minimum of
\* maxInputTake and of floor(limit / count) over the used methods, and the
\* batch provider can be used; when a used method has a null limit, it can
\* not, and the capacity is 1, or max(1, floor(maxInputTake / 10)) when
\* minDelayBetweenCalls is no-limit. The provider of a call is the batch
\* provider exactly when canUseBatchProvider is true.
C17_CapacityAndProvider ==
    /\ BatchConfig.canUseBatchProvider = ~SomeUsedLimitIsNull
    /\ ~SomeUsedLimitIsNull => Capacity = MinOverUsedMethods
    /\ SomeUsedLimitIsNull =>
          Capacity = IF rpcConfig.minDelayBetweenCalls = "no-limit"
                     THEN Max(1, rpcConfig.maxInputTake \div 10)
                     ELSE 1
    /\ rpcCall # NoCall =>
          (rpcCall.provider = "batch" <=> BatchConfig.canUseBatchProvider)

\* a used method with a limit comes before a used method without one, the
\* RPC is in no-limit mode, and a group of two items is sent to the linear
\* provider
C17_Witness ==
    /\ rpcConfig.methods[1] = [count |-> 3, limit |-> 2]
    /\ rpcConfig.methods[2] = [count |-> 1, limit |-> NoLimit]
    /\ rpcConfig.minDelayBetweenCalls = "no-limit"
    /\ rpcConfig.maxInputTake = 20
    /\ Capacity = 2
    /\ Len(rpcCall.objs) = 2
    /\ rpcCall.provider = "linear"

\* the groups of items bufferTime has formed or is forming
GroupsFormed == {rpcBuffer, rpcCall.objs} \cup SeqToSet(rpcGroups)

\* concatMap starts the call of a group
StartingGroup == rpcCall = NoCall /\ rpcCall' # NoCall

\* every item that came before the group has got its output or its error
PreviousGroupsDone(objs) ==
    \A i \in 1..(objs[1] - 1) : i \in SeqToSet(rpcOut) \cup SeqToSet(rpcErrors)

MissingResult ==
    /\ rpcCall # NoCall
    /\ rpcCall' = NoCall
    /\ rpcFailed' = rpcFailed
    /\ rpcOut' = rpcOut

\* C19: when processBatch succeeds but the map has no entry for the query of
\* an item, the error is fatal: it ends the run and is not turned into
\* errors of the items.
C19_MissingResultIsFatal ==
    [][MissingResult => (~rpcAlive' /\ rpcErrors' = rpcErrors)]_vars

(***************************************************************************)
(* Properties of the import pipeline.                                      *)
(***************************************************************************)
\* the groups of the tick whose call ended with an error of missing data
MissingDataGroups == {t \in rpcThrown : t.kind = "missing-data"}

\* C20: when the RPC call of a group fails with an error of missing data,
\* the error is classified as ArchiveNodeNeededError, every item of the
\* group is passed to emitErrors and none is an output, and once the
\* import state is updated the range of each of these items is in toRetry.
C20_ArchiveNodeErrorsToRetry ==
    \A t \in MissingDataGroups :
       /\ t.error = "archive-node-needed"
       /\ \A q \in SeqToSet(t.objs) :
             /\ q \notin SeqToSet(rpcOut)
             /\ \/ q \in SeqToSet(rpcErrors)
                \/ AsResult(q, FALSE) \in SeqToSet(batch)
                \/ BlocksOfRange(q.range) \subseteq BlocksOf(toRetry)

\* the call of a group of two items failed for missing data and the import
\* state has been updated since: the ranges of both items are in toRetry
C20_Witness ==
    /\ rpcErrors = <<>>
    /\ batch = <<>>
    /\ \E t \in MissingDataGroups :
          /\ Len(t.objs) = 2
          /\ \A q \in SeqToSet(t.objs) :
                BlocksOfRange(q.range) \subseteq BlocksOf(toRetry)

(***************************************************************************)
(* Properties of fetchERC20TransferEvents.                                 *)
(***************************************************************************)
\* the call of the last fetch that queries a token
CallOf(token) ==
    CHOOSE c \in {contractCalls[i] : i \in 1..Len(contractCalls)} : c.address = token

\* the events of the chain a call fetches, in log order
FetchedEvents(call) ==
    LET Matches(e) == /\ e.token = call.address
                      /\ call.trackAddress \in {NoTrack, e.from, e.to}
    IN SelectSeq(chainLogs, Matches)

\* what an event adds to the balance of an owner
SignedAmount(e, owner) ==
    (IF e.to = owner THEN e.value ELSE 0) - (IF e.from = owner THEN e.value ELSE 0)

\* the net sum of the signed amounts of an owner in a block
RECURSIVE NetAmount(_, _, _)
NetAmount(events, owner, block) ==
    IF events = <<>> THEN 0
    ELSE (IF Head(events).blockNumber = block THEN SignedAmount(Head(events), owner) ELSE 0)
         + NetAmount(Tail(events), owner, block)

\* the events of an owner in a block
EventsOf(events, owner, block) ==
    {e \in {events[i] : i \in 1..Len(events)} :
        e.blockNumber = block /\ owner \in {e.from, e.to}}

\* C21: fetchERC20TransferEvents returns at most one record per token, owner
\* and block; the amount of the record is the net sum of the signed amounts
\* of the owner in the block, and its transactionHash is the one of the
\* event of the owner in the block with the highest logIndex.
C21_RecordIsNetAmount ==
    fetched =>
        /\ \A i, j \in 1..Len(transfers) :
              GroupKey(transfers[i]) = GroupKey(transfers[j]) => i = j
        /\ \A i \in 1..Len(transfers) :
              LET r == transfers[i]
                  events == FetchedEvents(CallOf(r.tokenAddress))
                  mine == EventsOf(events, r.ownerAddress, r.blockNumber)
              IN /\ r.amountTransfered = NetAmount(events, r.ownerAddress, r.blockNumber)
                 /\ \E e \in mine : /\ e.transactionHash = r.transactionHash
                                    /\ \A o \in mine : o.logIndex <= e.logIndex

(***************************************************************************)
(* Properties of the latest-block query.                                   *)
(***************************************************************************)
\* C22: the latest-range query is [head - target - 5, head - 5], where target
\* is min(maxBlocksPerQuery[chain], blocksIn1Hour[chain], head - lastImported - 1),
\* for every head and every last imported block; the third term is dropped
\* only when there is no last imported block.
C22_LatestRangeFormula ==
    LET q == latestQuery
        target == IF q.lastImported = NoLastImported
                  THEN Min(maxBlocksPerQuery, q.period)
                  ELSE Min(Min(maxBlocksPerQuery, q.period),
                           q.latestBlockNumber - q.lastImported - 1)
    IN q # NoLatestQuery =>
          q.range = Range(q.latestBlockNumber - target - 5, q.latestBlockNumber - 5)

\* C23: the from-bound of the latest-block query is never lower than the
\* contract creation block of the target, and never negative.
C23_FromBoundClamped ==
    latestQuery # NoLatestQuery =>
        /\ latestQuery.range.from >= importState.contractCreatedAtBlock
        /\ latestQuery.range.from >= 0

(***************************************************************************)
(* The planner scenarios.                                                  *)
(***************************************************************************)
\* the historical planner has run on the stored state, with head 1000
PlannedAtHead1000 ==
    /\ plan.kind = "historical"
    /\ head = 1000
    /\ importState.contractCreatedAtBlock = 900

RetryInsideCovered ==
    /\ covered = <<Range(900, 950), Range(960, 1000)>>
    /\ toRetry = <<Range(910, 915)>>

\* C25 as stated: with toRetry = [[910,915]] and coveredRanges =
\* [[900,950],[960,1000]], the historical planner emits no primary range and
\* its output is exactly the retry range [910,915].
C25_OnlyRetryRange ==
    (PlannedAtHead1000 /\ RetryInsideCovered)
        => /\ plan.nPrimary = 0
           /\ plan.ranges = <<Range(910, 915)>>

\* C25, amended: in that state the blocks 951 to 959 are not covered; the
\* planner emits the primary range [951,959] and then the retry range
\* [910,915].
C25_GapThenRetryRange ==
    (PlannedAtHead1000 /\ RetryInsideCovered)
        => /\ plan.nPrimary = 1
           /\ plan.ranges = <<Range(951, 959), Range(910, 915)>>

C25_Witness ==
    /\ PlannedAtHead1000
    /\ RetryInsideCovered
    /\ plan.ranges # <<>>

(***************************************************************************)
(* Determinism of the planner.                                             *)
(***************************************************************************)
\* C26: two invocations of the planner with the same import state and the
\* same chain head (or forced head) return identical range lists in
\* identical order.
C26_PlannerIsDeterministic ==
    \A i, j \in 1..Len(runs) :
        (/\ runs[i].variant = runs[j].variant
         /\ runs[i].importState = runs[j].importState
         /\ HeadInput(runs[i]) = HeadInput(runs[j]))
            => runs[i].ranges = runs[j].ranges

(***************************************************************************)
(* Life cycle of an import key.                                            *)
(***************************************************************************)
\* coveredRanges contains [contractCreatedAtBlock, head - 5]
CoversUpTo(h) ==
    BlocksOf(<<fullRange(importState, h)>>) \subseteq BlocksOf(covered)

\* the planner has run on the stored state, for the head of the chain
PlannedForHead == plan.kind \in {"historical", "historical2"} /\ plan.latest = head

\* CAUGHT_UP: everything up to head - 5 is covered and the planner emits no
\* primary range
CaughtUp == CoversUpTo(head) /\ PlannedForHead /\ plan.nPrimary = 0

\* ACTIVE: some block up to head - 5 is not covered and the planner emits
\* primary ranges
Active == ~CoversUpTo(head) /\ PlannedForHead /\ plan.nPrimary >= 1

\* C27: while the chain head stays where it is, repeated historical ticks
\* whose ranges are processed and recorded eventually reach CAUGHT_UP; a
\* planner run for a head beyond what is covered emits primary ranges again
\* (ACTIVE), whatever was covered before: a key is never retired.
C27_EventuallyCaughtUp ==
    /\ \A h \in FirstHead..MaxHead : [](head = h => <>(head # h \/ CaughtUp))
    /\ [](PlannedForHead => (CaughtUp \/ Active))

\* caught up at the previous head, then the head advanced and the planner
\* emits the new block
C27_Witness ==
    /\ head = FirstHead + 1
    /\ CoversUpTo(FirstHead)
    /\ Active

(***************************************************************************)
(* Properties of the latest-block cache.                                   *)
(***************************************************************************)
\* C28: for one chain, at most one eth_blockNumber call is in flight at any
\* time: the items of the same chain share the result in flight, and the
\* cached result afterwards, until it is stdTTLSec old.
C28_OneCallInFlightPerChain ==
    \A chain \in Chains : Cardinality(CallsOf(chain)) <= 1

\* two items of one chain wait for the result of the same call
C28_Witness ==
    \E chain \in Chains :
        /\ Cardinality(CallsOf(chain)) = 1
        /\ Cardinality({i \in Callers : lbCallers[i].chain = chain
                                         /\ lbCallers[i].phase = "waiting"}) >= 2

(***************************************************************************)
(* Properties of the RPC gate.                                             *)
(***************************************************************************)
\* the gated calls in flight on an endpoint
InFlight(endpoint) ==
    {op \in Operators : gateOps[op].endpoint = endpoint /\ gateOps[op].phase = "inflight"}

\* C29: on an endpoint whose minDelayBetweenCalls is not no-limit, at most
\* one gated call is in flight at any time, whichever operators issue the
\* calls, and between the release of a call and the start of another one
\* at least minDelayBetweenCalls passes: the call in flight did not start
\* before the end of the call that ended last, nor less than
\* minDelayBetweenCalls after it.
C29_OneGatedCallAndMinDelay ==
    \A endpoint \in Endpoints :
        minDelayBetweenCalls(endpoint) # NoLimit =>
            /\ Cardinality(InFlight(endpoint)) <= 1
            /\ \A op \in InFlight(endpoint) :
                 \/ gateCalls[endpoint].end = Never
                 \/ gateOps[op].start >= gateCalls[endpoint].end + minDelayBetweenCalls(endpoint)

\* a call of one operator ended on a limited endpoint, the call of another
\* operator started minDelayBetweenCalls later, and a third operator waits
C29_Witness ==
    \E endpoint \in Endpoints, op1, op2 \in Operators :
        /\ minDelayBetweenCalls(endpoint) # NoLimit
        /\ op1 # op2
        /\ gateOps[op1].endpoint = endpoint /\ gateOps[op1].phase = "inflight"
        /\ gateOps[op2].endpoint = endpoint /\ gateOps[op2].phase = "queued"
        /\ gateOps[op1].provider # gateOps[op2].provider
        /\ gateCalls[endpoint].end # Never
        /\ gateOps[op1].start = gateCalls[endpoint].end + minDelayBetweenCalls(endpoint)

(***************************************************************************)
(* Properties of processShareRateQuery$.                                   *)
(***************************************************************************)
\* the queries whose product is a boost or a gov vault
WithoutPpfs == {q \in Queries : isBeefyBoost(ppfsItems[q].product)
                                  \/ isBeefyGovVault(ppfsItems[q].product)}

\* the queries fetchBeefyPPFS$ asked the call parameters of: the ones that
\* were called and the one that threw
ParamsBuilt == {c.query : c \in ppfsCalled} \cup ({ppfsThrown.query} \ {0})

\* C30: a boost or a gov-vault product never reaches the PPFS RPC call:
\* building its call parameters raises a ProgrammerError, and no
\* getPricePerFullShare call is made for it.
C30_NoPpfsCallForBoostOrGovVault ==
    \A q \in WithoutPpfs :
        /\ q \notin {c.query : c \in ppfsCalled}
        /\ ppfsItems[q].stage \notin {"called", "success", "error"}
        /\ q \in ParamsBuilt => ppfsThrown = [query |-> q, error |-> "ProgrammerError"]

\* a gov vault came in a batch behind a vault: the error was raised for it
\* and no call was made for the batch, while an earlier batch was called
C30_Witness ==
    \E q \in WithoutPpfs, v \in Queries \ WithoutPpfs :
        /\ isBeefyGovVault(ppfsItems[q].product)
        /\ ppfsThrown.query = q
        /\ ppfsItems[v].stage = "buffered"
        /\ v \notin SeqToSet(ppfsBuffer)
        /\ ppfsCalled # {}

(***************************************************************************)
(* Properties of addCoveringBlockRangesQuery.                              *)
(***************************************************************************)
\* the entries the step is computed from
LastTimeSteps == sliceLast(cbBlockList, lastTimeStepsCount)

\* C31: the step used to extrapolate the block numbers up to the head is the
\* average difference between consecutive entries of the last
\* lastTimeStepsCount time steps: step * (n - 1) = last entry - first entry.
C31_StepIsAverageDelta ==
    (cbOut.computed /\ Len(LastTimeSteps) >= 2) =>
        cbOut.blockStep.num * (Len(LastTimeSteps) - 1)
            = (LastTimeSteps[Len(LastTimeSteps)] - LastTimeSteps[1]) * cbOut.blockStep.den

(***************************************************************************)
(* Failures of updateImportState$, whatever their kind.                    *)
(***************************************************************************)
\* the transactions whose update failed for good
FailedUpdates == {t \in Txs : txs[t].phase = "done" /\ txs[t].error # "none"}

\* C32: every item whose update fails, whatever the kind of failure, is
\* reported through emitErrors exactly once and is not emitted downstream,
\* and the failure does not terminate the stream for the other items.
C32_EveryFailureToEmitErrors ==
    /\ txAlive
    /\ \A t \in FailedUpdates :
          \A id \in SeqToSet(ItemIds(t)) :
             /\ CountIn(txErrors, id) = 1
             /\ id \notin SeqToSet(txOut)

(***************************************************************************)
(* The primary ranges of the planner output.                               *)
(***************************************************************************)
\* the primary ranges of the output: the uncovered ranges, split
PrimaryOfPlan == SubSeq(plan.ranges, 1, plan.nPrimary)

PlanMaxLength == IF plan.kind = "regular" THEN rangeMaxLength ELSE maxBlocksPerQuery

\* C33: the primary ranges of the planner output are ordered newest first
\* (descending by from), each holds at most the maximum range length of
\* blocks, and when the output is not truncated their union is the full
\* range minus coveredRanges.
C33_PrimaryNewestFirstSplitComplete ==
    Planned =>
        /\ \A i, j \in 1..plan.nPrimary :
              i < j => PrimaryOfPlan[i].from > PrimaryOfPlan[j].from
        /\ \A i \in 1..plan.nPrimary :
              /\ PrimaryOfPlan[i].from <= PrimaryOfPlan[i].to
              /\ PrimaryOfPlan[i].to - PrimaryOfPlan[i].from + 1 <= PlanMaxLength
        /\ (plan.kind \in {"historical", "historical2"}
              /\ UnlimitedCount <= MAX_RANGES_PER_PRODUCT_TO_GENERATE) =>
              BlocksOf(PrimaryOfPlan)
                = BlocksOfRange(fullRange(importState, plan.latest)) \ BlocksOf(covered)

\* the planner has emitted, untruncated, a primary range above and a primary
\* range below the covered ranges
C33_Witness ==
    /\ plan.kind \in {"historical", "historical2"}
    /\ UnlimitedCount <= MAX_RANGES_PER_PRODUCT_TO_GENERATE
    /\ plan.nPrimary >= 2
    /\ covered # <<>>
    /\ \E i \in 1..plan.nPrimary : PrimaryOfPlan[i].to < covered[1].from
    /\ \E i \in 1..plan.nPrimary : PrimaryOfPlan[i].from > covered[Len(covered)].to

(***************************************************************************)
(* The capacity of getBatchConfigFromLimitations.                          *)
(***************************************************************************)
\* C34: the capacity returned by getBatchConfigFromLimitations is at least 1
\* for every maxInputTake >= 1, calls per input object and limits, also for
\* a limit smaller than the number of calls per input object.
C34_CapacityAtLeastOne ==
    rpcConfig.maxInputTake >= 1 => Capacity >= 1

(***************************************************************************)
(* The bounds of the latest-block query.                                   *)
(***************************************************************************)
\* C35: the range emitted by addLatestBlockQuery$ satisfies from <= to, for
\* every head and every last imported block number, also a last imported
\* block at or above the head, and a last imported block of 0.
C35_LatestRangeFromBelowTo ==
    latestQuery # NoLatestQuery => latestQuery.range.from <= latestQuery.range.to

(***************************************************************************)
(* The queries of fetchErc20Transfers$.                                    *)
(***************************************************************************)
\* C36: the query built for the items of a batch key covers the block range
\* of every item of the group: its fromBlock is at most the fromBlock of the
\* item, its toBlock at least the toBlock of the item.
C36_QueryCoversEveryItem ==
    tqBuilt =>
        \A i \in 1..Len(tqItems) :
            LET query == tqQueries[getBatchKey(tqItems[i])]
            IN /\ query.fromBlock <= tqItems[i].fromBlock
               /\ query.toBlock >= tqItems[i].toBlock

(***************************************************************************)
(* The covered range of the legacy block-ranges import status.             *)
(***************************************************************************)
\* a range holds every block of another
rangeContains(outer, inner) == outer.from <= inner.from /\ inner.to <= outer.to

\* C37: after an update of the legacy import status, the stored
\* coveredBlockRange contains the block range of every item of the batch and
\* the range covered before, also when the ranges of the items are not
\* contiguous with it.
C37_CoveredRangeHoldsBatchAndPrevious ==
    [][/\ rangeContains(lsStatus'.coveredBlockRange, lsStatus.coveredBlockRange)
       /\ \A i \in 1..Len(lsItems') :
             rangeContains(lsStatus'.coveredBlockRange, lsItems'[i].blockRange)]_vars

(***************************************************************************)
(* The latest block number of the chain in the import state.               *)
(***************************************************************************)
\* the latest block numbers of the items of a transaction for an import key
LatestsOfKey(t, k) == {txs[t].items[i].latest : i \in {j \in 1..Len(txs[t].items) : txs[t].items[j].key = k}}

\* the transaction commits in this step
Commits(t) == txs[t].phase = "running" /\ txs'[t].phase = "done" /\ txs'[t].error = "none"

\* C38: chainLatestBlockNumber of a block-number import state never
\* decreases across the updates of the import state: after an update it is
\* the maximum of its value before and the latest values of the items.
C38_ChainLatestNeverDecreases ==
    [][\A k \in DOMAIN dbRows :
          /\ dbRows'[k].chainLatestBlockNumber >= dbRows[k].chainLatestBlockNumber
          /\ \A t \in Txs :
                Commits(t) /\ LatestsOfKey(t, k) # {} =>
                   LET values == LatestsOfKey(t, k) \cup {dbRows[k].chainLatestBlockNumber}
                   IN /\ dbRows'[k].chainLatestBlockNumber \in values
                      /\ \A v \in values : dbRows'[k].chainLatestBlockNumber >= v]_vars

\* two transactions with different latest block numbers committed on an
\* import key, whose row holds the higher of the two
C38_Witness ==
    \E t, u \in Txs : \E k \in DOMAIN dbRows :
       /\ t # u
       /\ Committed(t) /\ Committed(u)
       /\ LatestsOfKey(t, k) # {} /\ LatestsOfKey(u, k) # {}
       /\ \A v \in LatestsOfKey(t, k) : \A w \in LatestsOfKey(u, k) : v < w
       /\ dbRows[k].chainLatestBlockNumber \in LatestsOfKey(u, k)

(***************************************************************************)
(* The batches of the patched batch provider.                              *)
(***************************************************************************)
\* the batches a request is in: the pending one, those posted, those answered
BatchesOf(id) ==
    (IF id \in SeqToSet(bpPending) THEN {<<"pending", bpPending>>} ELSE {})
    \cup {<<"posted", b>> : b \in {f \in bpFlights : id \in SeqToSet(f)}}
    \cup {<<"answered", a>> : a \in {d \in bpAnswered : id \in SeqToSet(d.requests)}}

\* a request is once in a batch
OnceIn(b, id) == Cardinality({i \in 1..Len(b) : b[i] = id}) = 1

IsSettled(id) == bpSettled[id].state \in {"resolved", "rejected"}

\* every request sent is in one batch, once; one aggregator at most is
\* scheduled, and one is when requests are pending; the promise of a request
\* is pending until its batch is answered and settled from then on
BatchesAreWhole ==
    /\ \A id \in 1..bpNextId - 1 :
          /\ Cardinality(BatchesOf(id)) = 1
          /\ \A l \in BatchesOf(id) :
                /\ OnceIn(IF l[1] = "answered" THEN l[2].requests ELSE l[2], id)
                /\ IsSettled(id) <=> l[1] = "answered"
    /\ bpTimers <= 1
    /\ bpTimers = 1 <=> bpPending # <<>>

\* a batch that was posted keeps its requests: a request sent after the
\* flush joins the pending batch; a promise that is settled stays as it is
BatchesAreClosed ==
    /\ \A b \in bpFlights' : b \in bpFlights \/ (b = bpPending /\ bpPending' = <<>>)
    /\ \A id \in DOMAIN bpSettled : IsSettled(id) => bpSettled'[id] = bpSettled[id]

\* C39: under any interleaving of the calls of send and of the flushes of
\* the timer, every request is posted in exactly one batch, one aggregation
\* timer at most is pending, the requests sent after a flush started go to
\* the next batch, and the promise of every caller is settled exactly once,
\* also when the response array is shorter than the batch.
C39_EveryRequestInOneBatchSettledOnce ==
    /\ []BatchesAreWhole
    /\ [][BatchesAreClosed]_vars
    /\ \A id \in 1..NumRequests : (bpSettled[id].state = "pending") ~> IsSettled(id)

\* a batch of two requests got an array of one element: its first caller
\* is settled by the element, its second caller is rejected; the request
\* sent after the flush of this batch was posted in the next batch
C39_Witness ==
    \E a \in bpAnswered :
       /\ a.answer = "array"
       /\ a.requests = <<1, 2>>
       /\ Len(a.result) = 1
       /\ bpSettled[1].of # 0
       /\ bpSettled[2] = [state |-> "rejected", of |-> 0]
       /\ <<3>> \in bpFlights

====
